---- MODULE Spec2Model ----
(***************************************************************************)
(* Model of the document-to-slides pipeline of ppt_agent_demo.             *)
(*                                                                         *)
(* Part 1 (Spec / LiveSpec): one run of PPTWorkflow.process_document: the  *)
(*   step graph of _build_workflow_graph driving the node functions over   *)
(*   one WorkflowState (the step ledger, the error list, the status).      *)
(* Part 2 (GenSpec): one call of                                           *)
(*   SlideGeneratorNode._generate_single_slide_with_quality_control.       *)
(* Part 3 (RouterSpec): a ProviderRouter and the calls made on it:         *)
(*   execute_with_fallback, and the get_provider-then-call of the nodes.   *)
(* Part 4 (BatchSpec): one batch call, generate_slides or                  *)
(*   evaluate_presentation_quality, with its gathered per-item tasks.      *)
(*                                                                         *)
(* Modelling conventions.  The graph library runs the nodes one after the  *)
(* other over the one WorkflowState object the nodes mutate, follows the   *)
(* edges of the compiled graph after a node returns, and lets an exception *)
(* raised by a node propagate out of ainvoke.  A node is split at its      *)
(* external (awaited) call: N_enter runs the node up to the call, N_finish *)
(* from the call's outcome to the node's end, including everything the     *)
(* raised exception triggers up the call stack.  Scores are in hundredths. *)
(***************************************************************************)
EXTENDS Integers, Sequences, FiniteSets

\* ------------------------------------------------------------------ bounds
MaxRetriesBound == 2     \* configuration.max_retries ranges over 0..MaxRetriesBound
MaxSections == 2         \* a parsed document has at most MaxSections sections
MaxRouterCalls == 2      \* calls made on one ProviderRouter
MaxBatch == 3            \* a batch call is given at most MaxBatch units

\* --------------------------------------------------------------- constants
DefaultPassRate == 80    \* pass_rate < 0.8, in hundredths
FailedEvalScore == 60    \* _evaluate_single_slide's score for a failed evaluation

VARIABLES
    configuration,      \* WorkflowConfiguration: max_retries, enable_optimization, quality_threshold
    status,             \* WorkflowState.status
    current_step,       \* WorkflowState.current_step
    step_results,       \* WorkflowState.step_results (the step ledger)
    errors,             \* WorkflowState.errors
    end_time,           \* WorkflowState.end_time is set
    processed_document, \* WorkflowState.processed_document
    presentation_data,  \* WorkflowState.presentation_data
    narration_data,     \* WorkflowState.narration_data is set
    node,               \* the graph node the run is at
    phase,              \* "enter": node not yet invoked, "await": node suspended at its external call
    finalized,          \* history: who called mark_completed / mark_failed, in order
    at_terminal,        \* history: the ledger, the errors and the current step as they were
                        \* when mark_completed / mark_failed set the status
    output,             \* the WorkflowOutput returned by process_document
    \* one call of _generate_single_slide_with_quality_control
    g_pc,               \* the external call the coroutine is suspended at, or how it ended
    attempt,            \* the loop variable, 0-based
    slide_content,      \* the slide of the current attempt
    quality_score,      \* its score
    optimized_slide,    \* the revision of the current attempt
    best_slide,
    best_quality,
    result,             \* the returned dict: slide, quality_info, attempts
    calls,              \* history: number of generate / evaluate / optimize calls made
    evals,              \* history: the scores obtained, in order, with the slide scored
    gen_outcomes,       \* history: outcome of every generate call, in order
    \* a ProviderRouter
    r_providers,        \* the keys of ProviderRouter.providers, in insertion order
    r_stats,            \* the request counters of the provider registered under each name
    r_default,          \* ProviderRouter.default_provider
    r_pc,               \* "idle", "loop" (inside execute_with_fallback's for loop), "returned", "raised"
    r_kind,             \* the call in progress or last made: "fallback" or "direct"
    r_names,            \* provider_names of the call
    r_idx,              \* position of the for loop in provider_names
    r_last_exception,   \* last_exception of the call
    r_outcome,          \* what the call returned or raised
    r_calls,            \* history: number of calls made on the router
    r_start,            \* history: the arguments and the router as the call found them
    r_invoked,          \* history: the candidates the call tried, in order: whether get_provider
                        \* gave the provider, and whether the provider's awaited method raised
    r_will,             \* what each provider's method does if awaited during a direct call
    \* one batch call
    b_pc,               \* "idle", "gather", "returned", "raised"
    b_kind,             \* "generate" (generate_slides) or "evaluate" (evaluate_presentation_quality)
    b_n,                \* number of input units (sections or slides)
    b_threshold,        \* quality_threshold of an evaluate batch
    b_pending,          \* the tasks of the gather that have not finished
    b_results,          \* what each task returned or raised, by task position
    b_order,            \* history: the task positions in the order the tasks finished
    b_raw,              \* history: what the provider did for each task
    b_output,           \* what the batch call returned
    \* the step ledger of one WorkflowState
    l_step_results,     \* WorkflowState.step_results
    l_errors,           \* WorkflowState.errors
    l_status,           \* WorkflowState.status
    l_current_step,     \* WorkflowState.current_step
    l_call,             \* history: the last ledger call: method, step, whether it raised
    l_call_before,      \* history: the ledger call before the last one
    l_before,           \* history: step_results, errors and status as the last call found them
    l_calls,            \* history: number of ledger calls made
    l_started,          \* history: number of start_step calls made for each step
    \* one AIProvider and the coroutines inside its execute_with_retry
    h_provider,         \* total_requests, successful_requests, failed_requests
    h_tasks,            \* per coroutine: "idle", "func" (awaiting func) or "sleep", and the loop variable
    h_ended,            \* history, per coroutine: how its last execute_with_retry ended, after how many tries
    h_calls,            \* history: number of calls made on the provider
    h_invocations,      \* history: number of times func was awaited
    h_resets,           \* history: number of reset_statistics calls
    h_health,           \* what is_healthy returned for the present counters, if it was read
    \* the analysis of one list of quality assessments
    q_pc,               \* "idle", "issues" (after _analyze_quality_issues), "done"
    q_assessments,      \* quality_assessments, the arguments of both functions
    q_issues,           \* the dict _analyze_quality_issues returned
    q_suggestions       \* the list _generate_improvement_suggestions returned

pvars == <<configuration, status, current_step, step_results, errors, end_time,
           processed_document, presentation_data, narration_data, node, phase,
           finalized, at_terminal, output>>

gvars == <<g_pc, attempt, slide_content, quality_score, optimized_slide, best_slide,
           best_quality, result, calls, evals, gen_outcomes>>

rvars == <<r_providers, r_stats, r_default, r_pc, r_kind, r_names, r_idx, r_last_exception,
           r_outcome, r_calls, r_start, r_invoked, r_will>>

bvars == <<b_pc, b_kind, b_n, b_threshold, b_pending, b_results, b_order, b_raw, b_output>>

lvars == <<l_step_results, l_errors, l_status, l_current_step, l_call, l_call_before,
           l_before, l_calls, l_started>>

hvars == <<h_provider, h_tasks, h_ended, h_calls, h_invocations, h_resets, h_health>>

qvars == <<q_pc, q_assessments, q_issues, q_suggestions>>

vars == <<pvars, gvars, rvars, bvars, lvars, hvars, qvars>>

\* ------------------------------------------------------------ enumerations
DOCUMENT_PARSING == "document_parsing"
QUALITY_CHECK == "quality_check"
SLIDE_GENERATION == "slide_generation"
QUALITY_EVALUATION == "quality_evaluation"
SLIDE_OPTIMIZATION == "slide_optimization"
NARRATION_GENERATION == "narration_generation"
OUTPUT_ASSEMBLY == "output_assembly"

ProcessingStep == {DOCUMENT_PARSING, QUALITY_CHECK, SLIDE_GENERATION, QUALITY_EVALUATION,
                   SLIDE_OPTIMIZATION, NARRATION_GENERATION, OUTPUT_ASSEMBLY}

PENDING == "pending"
RUNNING == "running"
COMPLETED == "completed"
FAILED == "failed"

END == "__end__"
RAISED == "__raised__"
START == "__start__"

None == [present |-> FALSE]

\* ------------------------------------------------------------- the ledger
NoData == [present |-> FALSE, needs_optimization |-> FALSE]

StepData(needs) == [present |-> TRUE, needs_optimization |-> needs]

StepResult(step) == [step |-> step, status |-> RUNNING, data |-> NoData]

SetMax(S) == CHOOSE m \in S : \A k \in S : k <= m

\* variant: the most recent attempt of `step`, whatever its status
LastRunning_any_status(sr, step) ==
    LET idx == {i \in DOMAIN sr : sr[i].step = step}
    IN IF idx = {} THEN 0 ELSE SetMax(idx)

\* the most recent attempt of `step` that is still running, 0 if none
LastRunning(sr, step) ==
    LET idx == {i \in DOMAIN sr : sr[i].step = step /\ sr[i].status = RUNNING}
    IN IF idx = {} THEN 0 ELSE SetMax(idx)

\* variant: a new attempt takes the place of the step's previous attempt
start_step_replacing(sr, step) ==
    LET idx == {i \in DOMAIN sr : sr[i].step = step}
    IN IF idx = {} THEN Append(sr, StepResult(step))
       ELSE [sr EXCEPT ![SetMax(idx)] = StepResult(step)]

start_step(sr, step) == Append(sr, StepResult(step))

complete_step(sr, step, data) ==
    LET i == LastRunning(sr, step)
    IN IF i = 0 THEN sr
       ELSE [sr EXCEPT ![i] = [@ EXCEPT !.status = COMPLETED,
                                        !.data = IF data.present THEN data ELSE @]]

fail_step(sr, step) ==
    LET i == LastRunning(sr, step)
    IN IF i = 0 THEN sr
       ELSE [sr EXCEPT ![i] = [@ EXCEPT !.status = FAILED]]

add_error(errs, step, is_recoverable) ==
    Append(errs, [step |-> step, is_recoverable |-> is_recoverable])

\* index of the most recent attempt of `step`, 0 if none
get_step_result(sr, step) ==
    LET idx == {i \in DOMAIN sr : sr[i].step = step}
    IN IF idx = {} THEN 0 ELSE SetMax(idx)

is_step_completed(sr, step) ==
    LET i == get_step_result(sr, step) IN i # 0 /\ sr[i].status = COMPLETED

is_step_failed(sr, step) ==
    LET i == get_step_result(sr, step) IN i # 0 /\ sr[i].status = FAILED

\* variant: only failed attempts count
get_retry_count_of_failed(sr, step) ==
    LET count == Cardinality({i \in DOMAIN sr : sr[i].step = step /\ sr[i].status = FAILED})
    IN IF count - 1 > 0 THEN count - 1 ELSE 0

get_retry_count(sr, step) ==
    LET count == Cardinality({i \in DOMAIN sr : sr[i].step = step})
    IN IF count - 1 > 0 THEN count - 1 ELSE 0

\* the run's ledger, errors and current step at one moment
Snapshot(sr, errs, step) == [present |-> TRUE, step_results |-> sr, errors |-> errs, current_step |-> step]

NoSnapshot == [present |-> FALSE, step_results |-> <<>>, errors |-> <<>>, current_step |-> "none"]

has_unrecoverable_errors(errs) == \E i \in DOMAIN errs : ~errs[i].is_recoverable


\* ------------------------------------------------- documents and slide decks
SectionKinds == {"ok", "empty_content", "no_title"}

Thresholds == {60, 80}

SeqsUpTo(S, n) == UNION {[1..k -> S] : k \in 0..n}

\* the section lists parse_document returns: never an empty one, since
\* _parse_sections_basic makes one section of a document without headings, an
\* empty document included
ParsedSections == SeqsUpTo(SectionKinds, MaxSections) \ {<<>>}

\* variant: a document with a section has content
has_content_when_not_empty(doc) == Len(doc.sections) > 0

\* ProcessedDocument.has_content
has_content(doc) ==
    Len(doc.sections) > 0 /\ \E i \in DOMAIN doc.sections : doc.sections[i] # "empty_content"

\* DocumentParserNode.validate_document_quality: is_valid = no issue was found
\* (an empty section or a missing title)
validate_document_quality(doc) ==
    [is_valid |-> \A i \in DOMAIN doc.sections : doc.sections[i] = "ok"]

RECURSIVE Ascending(_, _, _)
\* the members of S among i..n, in ascending order
Ascending(S, i, n) ==
    IF i > n THEN <<>>
    ELSE IF i \in S THEN <<i>> \o Ascending(S, i + 1, n) ELSE Ascending(S, i + 1, n)

\* SlideGeneratorNode.generate_slides: ok is the set of section positions whose
\* per-item task returned; the others raised and become failure records
generate_slides(sections, ok) ==
    LET n == Len(sections)
        good == Ascending(ok, 1, n)
        bad == Ascending((1..n) \ ok, 1, n)
    IN [present |-> TRUE,
        slides |-> [k \in DOMAIN good |-> [section |-> good[k], optimized |-> FALSE]],
        failed_slides |-> bad]

EvalOutcomes == {[overall_score |-> 90, passed |-> TRUE],
                 [overall_score |-> 70, passed |-> TRUE],
                 [overall_score |-> 70, passed |-> FALSE],
                 [overall_score |-> FailedEvalScore, passed |-> FALSE]}

RECURSIVE SumScores(_, _)
SumScores(as, i) == IF i > Len(as) THEN 0 ELSE as[i].overall_score + SumScores(as, i + 1)

\* variant: optimization is asked for only when both the average and the pass
\* rate are low
evaluate_presentation_quality_both_below(as, quality_threshold) ==
    LET n == Len(as)
        total_score == SumScores(as, 1)
        passed_count == Cardinality({i \in DOMAIN as : as[i].passed})
        avg_below == IF n > 0 THEN total_score < quality_threshold * n
                     ELSE 0 < quality_threshold
        rate_below == IF n > 0 THEN passed_count * 100 < DefaultPassRate * n
                      ELSE 0 < DefaultPassRate
    IN [needs_optimization |-> avg_below /\ rate_below,
        average_quality_score |-> [total_score |-> total_score, assessed |-> n],
        passed_slides |-> passed_count]

\* QualityEvaluatorNode.evaluate_presentation_quality, from the per-slide
\* assessments: avg_score < quality_threshold or pass_rate < 0.8, both 0.0 when
\* there are no assessments
evaluate_presentation_quality(as, quality_threshold) ==
    LET n == Len(as)
        total_score == SumScores(as, 1)
        passed_count == Cardinality({i \in DOMAIN as : as[i].passed})
        avg_below == IF n > 0 THEN total_score < quality_threshold * n
                     ELSE 0 < quality_threshold
        rate_below == IF n > 0 THEN passed_count * 100 < DefaultPassRate * n
                      ELSE 0 < DefaultPassRate
    IN [needs_optimization |-> avg_below \/ rate_below,
        average_quality_score |-> [total_score |-> total_score, assessed |-> n],
        passed_slides |-> passed_count]

OptOutcomes == {"keep", "optimized", "optimize_failed"}

RECURSIVE PickSlides(_, _, _, _)
PickSlides(slides, oc, kind, i) ==
    IF i > Len(slides) THEN <<>>
    ELSE IF oc[i] = kind
         THEN <<[slides[i] EXCEPT !.optimized = (kind = "optimized")]>> \o PickSlides(slides, oc, kind, i + 1)
         ELSE PickSlides(slides, oc, kind, i + 1)

\* SlideGeneratorNode.optimize_low_quality_slides: slides that passed (or whose
\* evaluation failed) stay, in order; the revisions of the others are appended
\* after them; a slide whose optimization raised is not put back
optimize_low_quality_slides(pd, oc) ==
    [pd EXCEPT !.slides = PickSlides(pd.slides, oc, "keep", 1) \o PickSlides(pd.slides, oc, "optimized", 1)]

\* ------------------------------------------------------------- the graph
\* PPTWorkflow._should_continue_after_quality_check
_should_continue_after_quality_check(sr) ==
    IF is_step_failed(sr, QUALITY_CHECK) THEN "error" ELSE "continue"

\* variant: the needs-optimization branch returns "retry" in place of "optimize"
_should_optimize_slides_retry_label(sr, cfg) ==
    IF is_step_failed(sr, QUALITY_EVALUATION)
    THEN IF get_retry_count(sr, SLIDE_GENERATION) < cfg.max_retries THEN "retry" ELSE "continue"
    ELSE LET last_evaluation == get_step_result(sr, QUALITY_EVALUATION)
         IN IF last_evaluation # 0 /\ sr[last_evaluation].data.present
               /\ sr[last_evaluation].data.needs_optimization /\ cfg.enable_optimization
            THEN "retry"
            ELSE "continue"

\* variant: enable_optimization is not consulted
_should_optimize_slides_ignores_flag(sr, cfg) ==
    IF is_step_failed(sr, QUALITY_EVALUATION)
    THEN IF get_retry_count(sr, SLIDE_GENERATION) < cfg.max_retries THEN "retry" ELSE "continue"
    ELSE LET last_evaluation == get_step_result(sr, QUALITY_EVALUATION)
         IN IF last_evaluation # 0 /\ sr[last_evaluation].data.present
               /\ sr[last_evaluation].data.needs_optimization
            THEN "optimize"
            ELSE "continue"

\* PPTWorkflow._should_optimize_slides
_should_optimize_slides(sr, cfg) ==
    IF is_step_failed(sr, QUALITY_EVALUATION)
    THEN IF get_retry_count(sr, SLIDE_GENERATION) < cfg.max_retries THEN "retry" ELSE "continue"
    ELSE LET last_evaluation == get_step_result(sr, QUALITY_EVALUATION)
         IN IF last_evaluation # 0 /\ sr[last_evaluation].data.present
               /\ sr[last_evaluation].data.needs_optimization /\ cfg.enable_optimization
            THEN "optimize"
            ELSE "continue"

\* variant: the edge out of slide_optimizer leads to output_assembler
_build_workflow_graph_skips_narration(n, sr, cfg) ==
    CASE n = "document_parser" -> "quality_check"
      [] n = "quality_check" ->
            IF _should_continue_after_quality_check(sr) = "continue"
            THEN "slide_generator" ELSE "error_handler"
      [] n = "slide_generator" -> "quality_evaluator"
      [] n = "quality_evaluator" ->
            LET r == _should_optimize_slides(sr, cfg)
            IN IF r = "optimize" THEN "slide_optimizer"
               ELSE IF r = "continue" THEN "narration_generator"
               ELSE "slide_generator"
      [] n = "slide_optimizer" -> "output_assembler"
      [] n = "narration_generator" -> "output_assembler"
      [] n = "output_assembler" -> END
      [] n = "error_handler" -> END

\* PPTWorkflow._build_workflow_graph: the node that follows `n` once it returned
_build_workflow_graph(n, sr, cfg) ==
    CASE n = "document_parser" -> "quality_check"
      [] n = "quality_check" ->
            IF _should_continue_after_quality_check(sr) = "continue"
            THEN "slide_generator" ELSE "error_handler"
      [] n = "slide_generator" -> "quality_evaluator"
      [] n = "quality_evaluator" ->
            LET r == _should_optimize_slides(sr, cfg)
            IN IF r = "optimize" THEN "slide_optimizer"
               ELSE IF r = "continue" THEN "narration_generator"
               ELSE "slide_generator"
      [] n = "slide_optimizer" -> "narration_generator"
      [] n = "narration_generator" -> "output_assembler"
      [] n = "output_assembler" -> END
      [] n = "error_handler" -> END

\* ------------------------------------ SlideGeneratorNode: one slide, one call
max_retry_attempts == 3

self_quality_threshold == 80

\* a slide is identified by the attempt that made it and by how it was made
Slide(a, kind) == [present |-> TRUE, attempt |-> a, kind |-> kind]

NoSlide == [present |-> FALSE, attempt |-> 0, kind |-> "none"]

NoQuality == [present |-> FALSE, overall_score |-> 0, passed |-> FALSE]

Quality(score, passed) == [present |-> TRUE, overall_score |-> score, passed |-> passed]

GenScores == {60, 65, 75, 90}

\* what evaluate_slide_quality may return: passed is the provider's own verdict
GenQualities == {Quality(sc, p) : sc \in GenScores, p \in BOOLEAN}

\* variant: the substituted score does not count as passed
default_quality_score_not_passed == Quality(70, FALSE)

\* the QualityScore built when the evaluation of a generated slide raises
default_quality_score == Quality(70, TRUE)

\* SlideGeneratorNode._create_fallback_slide
_create_fallback_slide == Slide(0, "fallback")

\* SlideGeneratorNode._create_fallback_quality
_create_fallback_quality == Quality(50, FALSE)

\* variant: the slide is accepted by comparing its score with the threshold
quality_passed_by_threshold(q) == q.overall_score >= self_quality_threshold

\* `if quality_score.passed` / `if optimized_quality.passed`
quality_passed(q) == q.passed

\* variant: a tie replaces the best result
is_better_or_equal(q, best) == ~best.present \/ q.overall_score >= best.overall_score

\* `if best_quality is None or quality_score.overall_score > best_quality.overall_score`
is_better(q, best) == ~best.present \/ q.overall_score > best.overall_score

\* variant: a failed generation is raised on every attempt
generation_failure_always_raised(a) == TRUE

\* `if attempt == self.max_retry_attempts - 1: raise e`
generation_failure_raised(a) == a = max_retry_attempts - 1

GInit ==
    /\ g_pc = "start"
    /\ attempt = 0
    /\ slide_content = NoSlide
    /\ quality_score = NoQuality
    /\ optimized_slide = NoSlide
    /\ best_slide = NoSlide
    /\ best_quality = NoQuality
    /\ result = [present |-> FALSE, slide |-> NoSlide, quality_info |-> NoQuality, attempts |-> 0]
    /\ calls = [generate |-> 0, evaluate |-> 0, optimize |-> 0]
    /\ evals = <<>>
    /\ gen_outcomes = <<>>

\* `return {'slide': ..., 'quality_info': ..., 'attempts': ...}`
Return(slide, quality, attempts) ==
    /\ result' = [present |-> TRUE, slide |-> slide, quality_info |-> quality, attempts |-> attempts]
    /\ g_pc' = "returned"
    /\ UNCHANGED attempt

\* the end of one pass of the for loop, with the best result as it then is: the
\* next attempt's generate call, or the return after the loop
NextAttempt(bs, bq) ==
    IF attempt + 1 < max_retry_attempts
    THEN /\ attempt' = attempt + 1
         /\ g_pc' = "generate"
         /\ UNCHANGED result
    ELSE Return(IF bs.present THEN bs ELSE _create_fallback_slide,
                IF bq.present THEN bq ELSE _create_fallback_quality,
                max_retry_attempts)

\* provider = self.provider_router.get_provider(), outside the try
g_get_provider ==
    /\ g_pc = "start"
    /\ \/ g_pc' = "generate"
       \/ g_pc' = "raised"
    /\ UNCHANGED <<attempt, slide_content, quality_score, optimized_slide, best_slide,
                   best_quality, result, calls, evals, gen_outcomes>>
    /\ UNCHANGED <<pvars, rvars, bvars, lvars, hvars, qvars>>

\* await provider.generate_slide_content(section, context) and, when it raises,
\* the outer except branch
g_generate_slide_content ==
    /\ g_pc = "generate"
    /\ calls' = [calls EXCEPT !.generate = @ + 1]
    /\ \/ /\ slide_content' = Slide(attempt, "generated")
          /\ gen_outcomes' = Append(gen_outcomes, "ok")
          /\ g_pc' = "evaluate"
          /\ UNCHANGED <<attempt, result>>
       \/ /\ gen_outcomes' = Append(gen_outcomes, "failed")
          /\ UNCHANGED slide_content
          /\ IF generation_failure_raised(attempt)
             THEN g_pc' = "raised" /\ UNCHANGED <<attempt, result>>
             ELSE NextAttempt(best_slide, best_quality)
    /\ UNCHANGED <<quality_score, optimized_slide, best_slide, best_quality, evals>>
    /\ UNCHANGED <<pvars, rvars, bvars, lvars, hvars, qvars>>

\* variant: the revision is tried on the last attempt as well
AfterEvaluation_optimizing_last(q) ==
    /\ quality_score' = q
    /\ IF quality_passed(q)
       THEN /\ Return(slide_content, q, attempt + 1)
            /\ UNCHANGED <<best_slide, best_quality>>
       ELSE /\ best_slide' = IF is_better(q, best_quality) THEN slide_content ELSE best_slide
            /\ best_quality' = IF is_better(q, best_quality) THEN q ELSE best_quality
            /\ g_pc' = "optimize" /\ UNCHANGED <<attempt, result>>

\* from the outcome q of the generated slide's evaluation to the next external call
AfterEvaluation(q) ==
    /\ quality_score' = q
    /\ IF quality_passed(q)
       THEN /\ Return(slide_content, q, attempt + 1)
            /\ UNCHANGED <<best_slide, best_quality>>
       ELSE /\ best_slide' = IF is_better(q, best_quality) THEN slide_content ELSE best_slide
            /\ best_quality' = IF is_better(q, best_quality) THEN q ELSE best_quality
            /\ IF attempt < max_retry_attempts - 1
               THEN g_pc' = "optimize" /\ UNCHANGED <<attempt, result>>
               ELSE NextAttempt(best_slide', best_quality')

\* await provider.evaluate_slide_quality(slide_content, ...); a raised
\* evaluation is replaced by the default score
g_evaluate_slide_quality ==
    /\ g_pc = "evaluate"
    /\ calls' = [calls EXCEPT !.evaluate = @ + 1]
    /\ \/ \E q \in GenQualities :
             /\ evals' = Append(evals, [slide |-> slide_content, quality |-> q, substituted |-> FALSE,
                                     threshold |-> self_quality_threshold])
             /\ AfterEvaluation(q)
       \/ /\ evals' = Append(evals, [slide |-> slide_content, quality |-> default_quality_score,
                                     substituted |-> TRUE, threshold |-> self_quality_threshold])
          /\ AfterEvaluation(default_quality_score)
    /\ UNCHANGED <<slide_content, optimized_slide, gen_outcomes>>
    /\ UNCHANGED <<pvars, rvars, bvars, lvars, hvars, qvars>>

\* variant: a failed revision forgets the best result
g_optimize_slide_content_forgetting_best ==
    /\ g_pc = "optimize"
    /\ calls' = [calls EXCEPT !.optimize = @ + 1]
    /\ \/ /\ optimized_slide' = Slide(attempt, "optimized")
          /\ g_pc' = "reevaluate"
          /\ UNCHANGED <<attempt, result, best_slide, best_quality>>
       \/ /\ UNCHANGED optimized_slide
          /\ best_slide' = NoSlide
          /\ best_quality' = NoQuality
          /\ NextAttempt(NoSlide, NoQuality)
    /\ UNCHANGED <<slide_content, quality_score, evals, gen_outcomes>>
    /\ UNCHANGED <<pvars, rvars, bvars, lvars, hvars, qvars>>

\* await provider.optimize_slide_content(slide_content, quality_score, section);
\* when it raises, the inner except branch passes
g_optimize_slide_content ==
    /\ g_pc = "optimize"
    /\ calls' = [calls EXCEPT !.optimize = @ + 1]
    /\ \/ /\ optimized_slide' = Slide(attempt, "optimized")
          /\ g_pc' = "reevaluate"
          /\ UNCHANGED <<attempt, result>>
       \/ /\ UNCHANGED optimized_slide
          /\ NextAttempt(best_slide, best_quality)
    /\ UNCHANGED <<slide_content, quality_score, best_slide, best_quality, evals, gen_outcomes>>
    /\ UNCHANGED <<pvars, rvars, bvars, lvars, hvars, qvars>>

\* await provider.evaluate_slide_quality(optimized_slide, ...); when it raises,
\* the inner except branch passes
g_evaluate_optimized_slide ==
    /\ g_pc = "reevaluate"
    /\ calls' = [calls EXCEPT !.evaluate = @ + 1]
    /\ \/ \E q \in GenQualities :
             /\ evals' = Append(evals, [slide |-> optimized_slide, quality |-> q, substituted |-> FALSE,
                                     threshold |-> self_quality_threshold])
             /\ IF quality_passed(q)
                THEN /\ Return(optimized_slide, q, attempt + 1)
                     /\ UNCHANGED <<best_slide, best_quality>>
                ELSE /\ best_slide' = IF q.overall_score > best_quality.overall_score
                                      THEN optimized_slide ELSE best_slide
                     /\ best_quality' = IF q.overall_score > best_quality.overall_score
                                        THEN q ELSE best_quality
                     /\ NextAttempt(best_slide', best_quality')
       \/ /\ UNCHANGED <<evals, best_slide, best_quality>>
          /\ NextAttempt(best_slide, best_quality)
    /\ UNCHANGED <<slide_content, quality_score, optimized_slide, gen_outcomes>>
    /\ UNCHANGED <<pvars, rvars, bvars, lvars, hvars, qvars>>

GenNext ==
    \/ g_get_provider
    \/ g_generate_slide_content
    \/ g_evaluate_slide_quality
    \/ g_optimize_slide_content
    \/ g_evaluate_optimized_slide

\* ------------------------------------------- AIProvider and ProviderRouter
\* self.max_retries of a provider
provider_max_retries == 3

\* is_healthy: success_rate >= 0.8, in hundredths
HealthyRate == 80

\* the keys of ProviderFactory._providers
FactoryProviders == {"openai", "gemini"}

\* a provider name the factory does not know
UnknownProvider == "other"

\* what default_provider (an argument, or DEFAULT_PROVIDER of the environment) may name
DefaultNames == FactoryProviders \cup {UnknownProvider}

\* the provider_name argument; "" stands for None (and for the empty string, also falsy)
PreferredNames == DefaultNames \cup {""}

\* the counters AIProvider.__init__ sets
NewProvider == [total_requests |-> 0, successful_requests |-> 0, failed_requests |-> 0]

\* variant: the rate must exceed 0.8
is_healthy_strict(p) ==
    p.total_requests = 0 \/ p.successful_requests * 100 > HealthyRate * p.total_requests

\* AIProvider.is_healthy
is_healthy(p) ==
    p.total_requests = 0 \/ p.successful_requests * 100 >= HealthyRate * p.total_requests

\* what one provider method does when awaited: the number of failed tries of its
\* execute_with_retry, and whether the method raises.  After max_retries + 1
\* failed tries execute_with_retry raises; the method then raises or, as
\* GeminiProvider's methods do, returns a fallback value
MethodOutcomes ==
    {[failed_attempts |-> 0, raised |-> FALSE],
     [failed_attempts |-> 1, raised |-> FALSE],
     [failed_attempts |-> provider_max_retries + 1, raised |-> FALSE],
     [failed_attempts |-> provider_max_retries + 1, raised |-> TRUE]}

\* AIProvider.execute_with_retry on the counters p
execute_with_retry(p, failed_attempts) ==
    IF failed_attempts <= provider_max_retries
    THEN [total_requests |-> p.total_requests + failed_attempts + 1,
          successful_requests |-> p.successful_requests + 1,
          failed_requests |-> p.failed_requests + failed_attempts]
    ELSE [total_requests |-> p.total_requests + provider_max_retries + 1,
          successful_requests |-> p.successful_requests,
          failed_requests |-> p.failed_requests + provider_max_retries + 1]

NoError == [present |-> FALSE, kind |-> "none", provider |-> ""]

\* the exception a provider's method raised
ProviderError(name) == [present |-> TRUE, kind |-> "provider_error", provider |-> name]

\* get_provider's RuntimeError
CannotGetProvider(name) == [present |-> TRUE, kind |-> "cannot_get_provider", provider |-> name]

\* execute_with_fallback's own RuntimeError
NoProviderAvailable == [present |-> TRUE, kind |-> "no_provider_available", provider |-> ""]

NoOutcome == [ended |-> "none", provider |-> "", error |-> NoError]

Returned(name) == [ended |-> "returned", provider |-> name, error |-> NoError]

Raised(e) == [ended |-> "raised", provider |-> "", error |-> e]

NoStart == [preferred |-> "", default |-> "", providers |-> <<>>,
            stats |-> [n \in FactoryProviders |-> NewProvider]]

NoWill == [n \in FactoryProviders |-> [failed_attempts |-> 0, raised |-> FALSE]]

Registered(providers) == {providers[i] : i \in DOMAIN providers}

\* ProviderRouter.add_provider; created: factory.create_provider returns a
\* provider (the name is known and its API key is configured)
add_provider(name, providers, stats, created) ==
    IF name \in FactoryProviders /\ created
    THEN [ok |-> TRUE,
          providers |-> IF name \in Registered(providers) THEN providers
                        ELSE Append(providers, name),
          stats |-> [stats EXCEPT ![name] = NewProvider]]
    ELSE [ok |-> FALSE, providers |-> providers, stats |-> stats]

\* ProviderRouter.get_provider; ok = FALSE: it raises CannotGetProvider
get_provider(name, default, providers, stats, created) ==
    LET provider_name == IF name # "" THEN name ELSE default
    IN IF provider_name \in Registered(providers)
       THEN [ok |-> TRUE, providers |-> providers, stats |-> stats]
       ELSE add_provider(provider_name, providers, stats, created)

\* variant: the fallbacks are not filtered by health
provider_names_ignoring_health(primary, providers, stats) ==
    <<primary>> \o SelectSeq(providers, LAMBDA n : n # primary)

\* execute_with_fallback's candidate list
provider_names(primary, providers, stats) ==
    <<primary>> \o SelectSeq(providers, LAMBDA n : n # primary /\ is_healthy(stats[n]))

\* a candidate the call tried
Tried(name, obtained, raised) == [provider |-> name, obtained |-> obtained, raised |-> raised]

\* variant: the result of the awaited method is not returned from the loop
method_result_is_returned_never(oc) == FALSE

\* `result = await method(*args, **kwargs)` is followed by `return result`
\* unless the method raised
method_result_is_returned(oc) == ~oc.raised

\* after the for loop: `if last_exception: raise last_exception else: raise RuntimeError(...)`
raise_after_loop(last_exception) ==
    IF last_exception.present THEN last_exception ELSE NoProviderAvailable

\* the router after ProviderRouter.__init__: the default provider is registered
\* unless it cannot be created
RInit ==
    /\ r_default \in DefaultNames
    /\ \E created \in BOOLEAN :
          r_providers = add_provider(r_default, <<>>, NoStart.stats, created).providers
    /\ r_stats = NoStart.stats
    /\ r_pc = "idle"
    /\ r_kind = "none"
    /\ r_names = <<>>
    /\ r_idx = 0
    /\ r_last_exception = NoError
    /\ r_outcome = NoOutcome
    /\ r_calls = 0
    /\ r_start = NoStart
    /\ r_invoked = <<>>
    /\ r_will = NoWill

\* the router of a run whose provider calls are not followed
RIdle ==
    /\ r_default = "openai"
    /\ r_providers = <<"openai">>
    /\ r_stats = NoStart.stats
    /\ r_pc = "idle"
    /\ r_kind = "none"
    /\ r_names = <<>>
    /\ r_idx = 0
    /\ r_last_exception = NoError
    /\ r_outcome = NoOutcome
    /\ r_calls = 0
    /\ r_start = NoStart
    /\ r_invoked = <<>>
    /\ r_will = NoWill

\* ProviderRouter.add_provider called by the program between two calls
r_add_provider ==
    /\ r_pc # "loop"
    /\ \E name \in DefaultNames, created \in BOOLEAN :
          LET a == add_provider(name, r_providers, r_stats, created)
          IN /\ r_providers' = a.providers
             /\ r_stats' = a.stats
    /\ UNCHANGED <<r_default, r_pc, r_kind, r_names, r_idx, r_last_exception, r_outcome,
                   r_calls, r_start, r_invoked, r_will>>
    /\ UNCHANGED <<pvars, gvars, bvars, lvars, hvars, qvars>>

\* ProviderRouter.switch_default_provider; it raises ValueError for a name that
\* is not registered
r_switch_default_provider ==
    /\ r_pc # "loop"
    /\ \E name \in DefaultNames :
          r_default' = IF name \in Registered(r_providers) THEN name ELSE r_default
    /\ UNCHANGED <<r_providers, r_stats, r_pc, r_kind, r_names, r_idx, r_last_exception,
                   r_outcome, r_calls, r_start, r_invoked, r_will>>
    /\ UNCHANGED <<pvars, gvars, bvars, lvars, hvars, qvars>>

\* execute_with_fallback up to its for loop
r_execute_with_fallback ==
    /\ r_pc # "loop"
    /\ r_calls < MaxRouterCalls
    /\ \E provider_name \in PreferredNames :
          LET primary_provider == IF provider_name # "" THEN provider_name ELSE r_default
          IN /\ r_names' = provider_names(primary_provider, r_providers, r_stats)
             /\ r_start' = [preferred |-> provider_name, default |-> r_default,
                            providers |-> r_providers, stats |-> r_stats]
    /\ r_idx' = 1
    /\ r_last_exception' = NoError
    /\ r_pc' = "loop"
    /\ r_kind' = "fallback"
    /\ r_outcome' = NoOutcome
    /\ r_calls' = r_calls + 1
    /\ r_invoked' = <<>>
    /\ r_will' = NoWill
    /\ UNCHANGED <<r_providers, r_stats, r_default>>
    /\ UNCHANGED <<pvars, gvars, bvars, lvars, hvars, qvars>>

\* the except branch of the loop body, then the next candidate or the raise
\* after the loop
Continue(e) ==
    /\ r_last_exception' = e
    /\ IF r_idx < Len(r_names)
       THEN /\ r_idx' = r_idx + 1
            /\ UNCHANGED <<r_pc, r_outcome>>
       ELSE /\ r_pc' = "raised"
            /\ r_outcome' = Raised(raise_after_loop(e))
            /\ UNCHANGED r_idx

\* one pass of execute_with_fallback's for loop: get_provider(name), the awaited
\* method, and the return or the except branch
r_try_provider ==
    /\ r_pc = "loop"
    /\ \E created \in BOOLEAN, oc \in MethodOutcomes :
          LET name == r_names[r_idx]
              got == get_provider(name, r_default, r_providers, r_stats, created)
          IN /\ r_providers' = got.providers
             /\ IF got.ok
                THEN /\ r_stats' = [got.stats EXCEPT ![name] = execute_with_retry(@, oc.failed_attempts)]
                     /\ r_invoked' = Append(r_invoked, Tried(name, TRUE, oc.raised))
                     /\ IF method_result_is_returned(oc)
                        THEN /\ r_pc' = "returned"
                             /\ r_outcome' = Returned(name)
                             /\ UNCHANGED <<r_idx, r_last_exception>>
                        ELSE Continue(ProviderError(name))
                ELSE /\ r_stats' = got.stats
                     /\ r_invoked' = Append(r_invoked, Tried(name, FALSE, FALSE))
                     /\ Continue(CannotGetProvider(name))
    /\ UNCHANGED <<r_default, r_kind, r_names, r_calls, r_start, r_will>>
    /\ UNCHANGED <<pvars, gvars, bvars, lvars, hvars, qvars>>

\* a provider call as the nodes make it: provider = self.provider_router.get_provider()
\* and then the awaited method of that provider; will is what the method of each
\* provider does for these arguments
r_node_call ==
    /\ r_pc # "loop"
    /\ r_calls < MaxRouterCalls
    /\ \E created \in BOOLEAN, will \in [FactoryProviders -> MethodOutcomes] :
          LET got == get_provider("", r_default, r_providers, r_stats, created)
          IN /\ r_providers' = got.providers
             /\ r_will' = will
             /\ IF got.ok
                THEN /\ r_stats' = [got.stats EXCEPT ![r_default] =
                                        execute_with_retry(@, will[r_default].failed_attempts)]
                     /\ r_invoked' = <<Tried(r_default, TRUE, will[r_default].raised)>>
                     /\ IF will[r_default].raised
                        THEN r_pc' = "raised" /\ r_outcome' = Raised(ProviderError(r_default))
                        ELSE r_pc' = "returned" /\ r_outcome' = Returned(r_default)
                ELSE /\ r_stats' = got.stats
                     /\ r_invoked' = <<Tried(r_default, FALSE, FALSE)>>
                     /\ r_pc' = "raised"
                     /\ r_outcome' = Raised(CannotGetProvider(r_default))
    /\ r_start' = [preferred |-> "", default |-> r_default,
                   providers |-> r_providers, stats |-> r_stats]
    /\ r_kind' = "direct"
    /\ r_names' = <<>>
    /\ r_idx' = 0
    /\ r_last_exception' = NoError
    /\ r_calls' = r_calls + 1
    /\ UNCHANGED r_default
    /\ UNCHANGED <<pvars, gvars, bvars, lvars, hvars, qvars>>

RouterNext ==
    \/ r_add_provider
    \/ r_switch_default_provider
    \/ r_execute_with_fallback
    \/ r_try_provider
    \/ r_node_call

\* ------------------------------------- batch calls: tasks joined by asyncio.gather
\* quality_threshold of an evaluate batch, in hundredths
EvalThresholds == Thresholds \cup {0, 100}

\* the slot of a task that has not finished
NoResult == [done |-> FALSE, raised |-> FALSE, unit |-> 0, overall_score |-> 0, passed |-> FALSE]

\* the exception a task ended with, as gather(return_exceptions=True) hands it back
TaskException(i) == [done |-> TRUE, raised |-> TRUE, unit |-> i, overall_score |-> 0, passed |-> FALSE]

\* the dict _generate_single_slide_with_quality_control returns for section i
GeneratedItem(i) == [done |-> TRUE, raised |-> FALSE, unit |-> i, overall_score |-> 0, passed |-> FALSE]

\* the dict _evaluate_single_slide returns for slide i
Assessment(i, score, passed) ==
    [done |-> TRUE, raised |-> FALSE, unit |-> i, overall_score |-> score, passed |-> passed]

NoRaw == [raised |-> FALSE, overall_score |-> 0, passed |-> FALSE]

\* what the awaited call of a task does: for a generate task whether
\* _generate_single_slide_with_quality_control raises
GenerateRaw == {[raised |-> r, overall_score |-> 0, passed |-> FALSE] : r \in BOOLEAN}

\* for an evaluate task what provider.evaluate_slide_quality returns, or that it raises
EvaluateRaw ==
    {[raised |-> FALSE, overall_score |-> o.overall_score, passed |-> o.passed] : o \in EvalOutcomes}
        \cup {[raised |-> TRUE, overall_score |-> 0, passed |-> FALSE]}

\* variant: the except branch raises again
_evaluate_single_slide_reraises(i, raw) ==
    IF raw.raised THEN TaskException(i) ELSE Assessment(i, raw.overall_score, raw.passed)

\* QualityEvaluatorNode._evaluate_single_slide for slide i
_evaluate_single_slide(i, raw) ==
    IF raw.raised THEN Assessment(i, FailedEvalScore, FALSE)
    ELSE Assessment(i, raw.overall_score, raw.passed)

\* variant: the results are listed as the tasks finish
gather_as_completed(results, order) == [k \in DOMAIN results |-> results[order[k]]]

\* results = await asyncio.gather(*tasks, return_exceptions=True): the k-th
\* result is that of the k-th task, whatever the order the tasks finished in
gather(results, order) == [k \in DOMAIN results |-> results[k]]

\* the positions k of res, from i on, with res[k] an exception
RECURSIVE ExceptionPositions(_, _)
ExceptionPositions(res, i) ==
    IF i > Len(res) THEN <<>>
    ELSE IF res[i].raised THEN <<i>> \o ExceptionPositions(res, i + 1)
         ELSE ExceptionPositions(res, i + 1)

\* variant: an exception among the results is skipped
process_results_without_failure_records(res) ==
    LET good == SelectSeq(res, LAMBDA x : ~x.raised)
    IN [slides |-> [k \in DOMAIN good |-> [section |-> good[k].unit, optimized |-> FALSE]],
        failed_slides |-> <<>>]

\* generate_slides' loop over enumerate(results): a slide for a returned dict, a
\* failure record with the position for an exception
process_results(res) ==
    LET good == SelectSeq(res, LAMBDA x : ~x.raised)
    IN [slides |-> [k \in DOMAIN good |-> [section |-> good[k].unit, optimized |-> FALSE]],
        failed_slides |-> ExceptionPositions(res, 1)]

NoOutput ==
    [present |-> FALSE, slides |-> <<>>, failed_slides |-> <<>>, speaker_script |-> FALSE,
     quality_assessments |-> <<>>, failed_assessments |-> <<>>, total_slides |-> 0,
     average_quality_score |-> [total_score |-> 0, assessed |-> 0],
     passed_slides |-> 0, needs_optimization |-> FALSE]

BInit ==
    /\ b_pc = "idle"
    /\ b_kind = "none"
    /\ b_n = 0
    /\ b_threshold = 0
    /\ b_pending = {}
    /\ b_results = <<>>
    /\ b_order = <<>>
    /\ b_raw = <<>>
    /\ b_output = NoOutput

\* the tasks of a batch of n units are made and the call awaits their gather
Gather(n) ==
    /\ b_n' = n
    /\ b_pending' = 1..n
    /\ b_results' = [i \in 1..n |-> NoResult]
    /\ b_raw' = [i \in 1..n |-> NoRaw]
    /\ b_order' = <<>>
    /\ b_pc' = "gather"

\* generate_slides up to the gather: one task per section
b_generate_slides ==
    /\ b_pc = "idle"
    /\ b_kind' = "generate"
    /\ \E n \in 0..MaxBatch : Gather(n)
    /\ UNCHANGED <<b_threshold, b_output>>
    /\ UNCHANGED <<pvars, gvars, rvars, lvars, hvars, qvars>>

\* one task of generate_slides ends
b_generate_task_ends ==
    /\ b_pc = "gather" /\ b_kind = "generate"
    /\ \E i \in b_pending, raw \in GenerateRaw :
          /\ b_pending' = b_pending \ {i}
          /\ b_raw' = [b_raw EXCEPT ![i] = raw]
          /\ b_results' = [b_results EXCEPT ![i] = IF raw.raised THEN TaskException(i)
                                                   ELSE GeneratedItem(i)]
          /\ b_order' = Append(b_order, i)
    /\ UNCHANGED <<b_pc, b_kind, b_n, b_threshold, b_output>>
    /\ UNCHANGED <<pvars, gvars, rvars, lvars, hvars, qvars>>

\* generate_slides from the return of the gather: the loop over the results, the
\* speaker script (a failure of it is swallowed) and the PresentationData returned
b_generate_slides_returns ==
    /\ b_pc = "gather" /\ b_kind = "generate"
    /\ b_pending = {}
    /\ \E script \in BOOLEAN :
          LET processed == process_results(gather(b_results, b_order))
          IN b_output' = [NoOutput EXCEPT !.present = TRUE,
                                          !.slides = processed.slides,
                                          !.failed_slides = processed.failed_slides,
                                          !.speaker_script = script /\ processed.slides # <<>>]
    /\ b_pc' = "returned"
    /\ UNCHANGED <<b_kind, b_n, b_threshold, b_pending, b_results, b_order, b_raw>>
    /\ UNCHANGED <<pvars, gvars, rvars, lvars, hvars, qvars>>

\* evaluate_presentation_quality up to the gather: get_provider, which may
\* raise, and one task per slide (every slide of a deck refers to a section of
\* the document it was made from)
b_evaluate_presentation_quality ==
    /\ b_pc = "idle"
    /\ b_kind' = "evaluate"
    /\ \E quality_threshold \in EvalThresholds : b_threshold' = quality_threshold
    /\ \/ \E n \in 0..MaxBatch : Gather(n)
       \/ /\ b_pc' = "raised"
          /\ UNCHANGED <<b_n, b_pending, b_results, b_raw, b_order>>
    /\ UNCHANGED b_output
    /\ UNCHANGED <<pvars, gvars, rvars, lvars, hvars, qvars>>

\* one task of evaluate_presentation_quality ends
b_evaluate_task_ends ==
    /\ b_pc = "gather" /\ b_kind = "evaluate"
    /\ \E i \in b_pending, raw \in EvaluateRaw :
          /\ b_pending' = b_pending \ {i}
          /\ b_raw' = [b_raw EXCEPT ![i] = raw]
          /\ b_results' = [b_results EXCEPT ![i] = _evaluate_single_slide(i, raw)]
          /\ b_order' = Append(b_order, i)
    /\ UNCHANGED <<b_pc, b_kind, b_n, b_threshold, b_output>>
    /\ UNCHANGED <<pvars, gvars, rvars, lvars, hvars, qvars>>

\* evaluate_presentation_quality from the return of the gather
b_evaluate_presentation_quality_returns ==
    /\ b_pc = "gather" /\ b_kind = "evaluate"
    /\ b_pending = {}
    /\ LET results == gather(b_results, b_order)
           quality_assessments == SelectSeq(results, LAMBDA x : ~x.raised)
           summary == evaluate_presentation_quality(quality_assessments, b_threshold)
       IN b_output' = [NoOutput EXCEPT !.present = TRUE,
                                       !.quality_assessments = quality_assessments,
                                       !.failed_assessments = ExceptionPositions(results, 1),
                                       !.total_slides = b_n,
                                       !.average_quality_score = summary.average_quality_score,
                                       !.passed_slides = summary.passed_slides,
                                       !.needs_optimization = summary.needs_optimization]
    /\ b_pc' = "returned"
    /\ UNCHANGED <<b_kind, b_n, b_threshold, b_pending, b_results, b_order, b_raw>>
    /\ UNCHANGED <<pvars, gvars, rvars, lvars, hvars, qvars>>

BatchNext ==
    \/ b_generate_slides
    \/ b_generate_task_ends
    \/ b_generate_slides_returns
    \/ b_evaluate_presentation_quality
    \/ b_evaluate_task_ends
    \/ b_evaluate_presentation_quality_returns

\* ------------------------------------------------ the ledger, called freely
\* number of ledger calls made on one WorkflowState
MaxLedgerCalls == 5

\* the steps the calls name
LedgerSteps == {SLIDE_GENERATION, QUALITY_EVALUATION}

\* the step data a complete_step call passes: none, or a dict
LedgerData == {NoData, StepData(FALSE)}

NoCall == [name |-> "none", step |-> "none", raised |-> FALSE]

\* a call of start_step, complete_step or fail_step that has returned: none of
\* the three has a raise statement, the loop of complete_step and fail_step
\* simply ends when no running attempt of the step is found
LedgerCall(name, step) == [name |-> name, step |-> step, raised |-> FALSE]

\* step_results, errors and status of the WorkflowState
LedgerState == [step_results |-> l_step_results, errors |-> l_errors, status |-> l_status]

\* a new WorkflowState
LIdle ==
    /\ l_step_results = <<>>
    /\ l_errors = <<>>
    /\ l_status = PENDING
    /\ l_current_step = "none"
    /\ l_call = NoCall
    /\ l_call_before = NoCall
    /\ l_before = [step_results |-> <<>>, errors |-> <<>>, status |-> PENDING]
    /\ l_calls = 0
    /\ l_started = [step \in LedgerSteps |-> 0]

\* a WorkflowState before its first ledger call: the run may have started and
\* an error may have been added
LInit ==
    /\ l_step_results = <<>>
    /\ l_errors \in {<<>>, add_error(<<>>, DOCUMENT_PARSING, TRUE)}
    /\ l_status \in {PENDING, RUNNING}
    /\ l_current_step = "none"
    /\ l_call = NoCall
    /\ l_call_before = NoCall
    /\ l_before = [step_results |-> <<>>, errors |-> l_errors, status |-> l_status]
    /\ l_calls = 0
    /\ l_started = [step \in LedgerSteps |-> 0]

\* what every ledger call leaves in the history
Called(name, step) ==
    /\ l_calls < MaxLedgerCalls
    /\ l_calls' = l_calls + 1
    /\ l_call' = LedgerCall(name, step)
    /\ l_call_before' = l_call
    /\ l_before' = LedgerState
    /\ UNCHANGED <<l_errors, l_status>>

\* WorkflowState.start_step
l_start_step ==
    /\ \E step \in LedgerSteps :
          /\ Called("start_step", step)
          /\ l_current_step' = step
          /\ l_step_results' = start_step(l_step_results, step)
          /\ l_started' = [l_started EXCEPT ![step] = @ + 1]
    /\ UNCHANGED <<pvars, gvars, rvars, bvars, hvars, qvars>>

\* WorkflowState.complete_step
l_complete_step ==
    /\ \E step \in LedgerSteps, data \in LedgerData :
          /\ Called("complete_step", step)
          /\ l_step_results' = complete_step(l_step_results, step, data)
    /\ UNCHANGED <<l_current_step, l_started>>
    /\ UNCHANGED <<pvars, gvars, rvars, bvars, hvars, qvars>>

\* WorkflowState.fail_step
l_fail_step ==
    /\ \E step \in LedgerSteps :
          /\ Called("fail_step", step)
          /\ l_step_results' = fail_step(l_step_results, step)
    /\ UNCHANGED <<l_current_step, l_started>>
    /\ UNCHANGED <<pvars, gvars, rvars, bvars, hvars, qvars>>

LedgerNext ==
    \/ l_start_step
    \/ l_complete_step
    \/ l_fail_step

\* ------------------------------------------- one AIProvider, called concurrently
\* number of calls (execute_with_retry, reset_statistics) made on the provider
MaxProviderCalls == 4

\* the coroutines that call execute_with_retry on the provider
ProviderTasks == {"a", "b"}

IdleTask == [pc |-> "idle", attempt |-> 0]

NotEnded == [how |-> "none", tries |-> 0]

NoHealth == [read |-> FALSE, value |-> FALSE]

\* a new provider, no coroutine inside execute_with_retry
HIdle ==
    /\ h_provider = NewProvider
    /\ h_tasks = [t \in ProviderTasks |-> IdleTask]
    /\ h_ended = [t \in ProviderTasks |-> NotEnded]
    /\ h_calls = 0
    /\ h_invocations = 0
    /\ h_resets = 0
    /\ h_health = NoHealth

\* execute_with_retry up to its first await: total_requests += 1, then func is awaited
h_execute_with_retry(t) ==
    /\ h_tasks[t].pc = "idle"
    /\ h_calls < MaxProviderCalls
    /\ h_calls' = h_calls + 1
    /\ h_provider' = [h_provider EXCEPT !.total_requests = @ + 1]
    /\ h_tasks' = [h_tasks EXCEPT ![t] = [pc |-> "func", attempt |-> 0]]
    /\ h_ended' = [h_ended EXCEPT ![t] = NotEnded]
    /\ h_invocations' = h_invocations + 1
    /\ h_health' = NoHealth
    /\ UNCHANGED h_resets
    /\ UNCHANGED <<pvars, gvars, rvars, bvars, lvars, qvars>>

\* func returns: successful_requests += 1, return result
h_func_returns(t) ==
    /\ h_tasks[t].pc = "func"
    /\ h_provider' = [h_provider EXCEPT !.successful_requests = @ + 1]
    /\ h_tasks' = [h_tasks EXCEPT ![t] = IdleTask]
    /\ h_ended' = [h_ended EXCEPT ![t] = [how |-> "returned", tries |-> h_tasks[t].attempt + 1]]
    /\ h_health' = NoHealth
    /\ UNCHANGED <<h_calls, h_invocations, h_resets>>
    /\ UNCHANGED <<pvars, gvars, rvars, bvars, lvars, qvars>>

\* variant: the first failure is raised, nothing is tried again
h_func_raises_at_once(t) ==
    /\ h_tasks[t].pc = "func"
    /\ h_provider' = [h_provider EXCEPT !.failed_requests = @ + 1]
    /\ h_tasks' = [h_tasks EXCEPT ![t] = IdleTask]
    /\ h_ended' = [h_ended EXCEPT ![t] = [how |-> "raised", tries |-> h_tasks[t].attempt + 1]]
    /\ h_health' = NoHealth
    /\ UNCHANGED <<h_calls, h_invocations, h_resets>>
    /\ UNCHANGED <<pvars, gvars, rvars, bvars, lvars, qvars>>

\* func raises: failed_requests += 1, then the backoff sleep while
\* attempt < max_retries, else the loop breaks and last_exception is raised
h_func_raises(t) ==
    /\ h_tasks[t].pc = "func"
    /\ h_provider' = [h_provider EXCEPT !.failed_requests = @ + 1]
    /\ IF h_tasks[t].attempt < provider_max_retries
       THEN /\ h_tasks' = [h_tasks EXCEPT ![t].pc = "sleep"]
            /\ UNCHANGED h_ended
       ELSE /\ h_tasks' = [h_tasks EXCEPT ![t] = IdleTask]
            /\ h_ended' = [h_ended EXCEPT ![t] = [how |-> "raised", tries |-> h_tasks[t].attempt + 1]]
    /\ h_health' = NoHealth
    /\ UNCHANGED <<h_calls, h_invocations, h_resets>>
    /\ UNCHANGED <<pvars, gvars, rvars, bvars, lvars, qvars>>

\* variant: the request of a later iteration is not counted
h_sleep_ends_uncounted(t) ==
    /\ h_tasks[t].pc = "sleep"
    /\ h_tasks' = [h_tasks EXCEPT ![t] = [pc |-> "func", attempt |-> h_tasks[t].attempt + 1]]
    /\ h_invocations' = h_invocations + 1
    /\ h_health' = NoHealth
    /\ UNCHANGED <<h_provider, h_calls, h_ended, h_resets>>
    /\ UNCHANGED <<pvars, gvars, rvars, bvars, lvars, qvars>>

\* the sleep ends: the next iteration of the loop, up to its await
h_sleep_ends(t) ==
    /\ h_tasks[t].pc = "sleep"
    /\ h_provider' = [h_provider EXCEPT !.total_requests = @ + 1]
    /\ h_tasks' = [h_tasks EXCEPT ![t] = [pc |-> "func", attempt |-> h_tasks[t].attempt + 1]]
    /\ h_invocations' = h_invocations + 1
    /\ h_health' = NoHealth
    /\ UNCHANGED h_resets
    /\ UNCHANGED <<h_calls, h_ended, h_resets>>
    /\ UNCHANGED <<pvars, gvars, rvars, bvars, lvars, qvars>>

\* AIProvider.reset_statistics
h_reset_statistics ==
    /\ h_calls < MaxProviderCalls
    /\ h_calls' = h_calls + 1
    /\ h_provider' = NewProvider
    /\ h_resets' = h_resets + 1
    /\ h_health' = NoHealth
    /\ UNCHANGED <<h_tasks, h_ended, h_invocations>>
    /\ UNCHANGED <<pvars, gvars, rvars, bvars, lvars, qvars>>

\* the property AIProvider.is_healthy is read
h_is_healthy ==
    /\ ~h_health.read
    /\ h_health' = [read |-> TRUE, value |-> is_healthy(h_provider)]
    /\ UNCHANGED <<h_provider, h_tasks, h_ended, h_calls, h_invocations, h_resets>>
    /\ UNCHANGED <<pvars, gvars, rvars, bvars, lvars, qvars>>

ProviderNext ==
    \/ \E t \in ProviderTasks : h_execute_with_retry(t)
    \/ \E t \in ProviderTasks : h_func_returns(t)
    \/ \E t \in ProviderTasks : h_func_raises(t)
    \/ \E t \in ProviderTasks : h_sleep_ends(t)
    \/ h_reset_statistics
    \/ h_is_healthy

\* ----------------------------- QualityEvaluatorNode: issues and suggestions
\* number of assessments in one analysis
MaxAssessments == 4

\* a component score below this line puts the slide in that component's bucket
IssueLine == 70

\* an overall score below this line puts the slide in overall_low_quality
OverallIssueLine == 60

\* a suggestion is emitted when more than this share of the slides, in
\* hundredths, is below IssueLine on the component
SuggestionShare == 30

Scored(accuracy, coherence, clarity, completeness, overall) ==
    [accuracy_score |-> accuracy, coherence_score |-> coherence, clarity_score |-> clarity,
     completeness_score |-> completeness, overall_score |-> overall]

\* the assessments analysed: a good slide, one low component, three low
\* components, an overall score between the two lines, everything low, and the
\* scores _evaluate_single_slide substitutes when an evaluation raised
GateAssessments ==
    {Scored(80, 80, 80, 80, 80),
     Scored(65, 80, 80, 80, 75),
     Scored(70, 65, 65, 65, 70),
     Scored(80, 80, 80, 80, 65),
     Scored(65, 65, 65, 65, 55),
     Scored(FailedEvalScore, FailedEvalScore, FailedEvalScore, FailedEvalScore, FailedEvalScore)}

\* the positions of the assessments whose score `field` is below `line`, in order
Bucket(qa, field, line) ==
    SelectSeq([i \in 1..Len(qa) |-> i], LAMBDA i : qa[i][field] < line)

\* QualityEvaluatorNode._analyze_quality_issues
_analyze_quality_issues(qa) ==
    [low_accuracy |-> Bucket(qa, "accuracy_score", IssueLine),
     poor_coherence |-> Bucket(qa, "coherence_score", IssueLine),
     unclear_content |-> Bucket(qa, "clarity_score", IssueLine),
     incomplete_information |-> Bucket(qa, "completeness_score", IssueLine),
     overall_low_quality |-> Bucket(qa, "overall_score", OverallIssueLine)]

\* `if low_..._count > total_slides * 0.3`
share_exceeded(count, total_slides) == count * 100 > total_slides * SuggestionShare

\* the suggestion of one component, or nothing
Suggestion(qa, field, text) ==
    IF share_exceeded(Len(Bucket(qa, field, IssueLine)), Len(qa)) THEN <<text>> ELSE <<>>

\* QualityEvaluatorNode._generate_improvement_suggestions
_generate_improvement_suggestions(qa) ==
    IF Len(qa) = 0 THEN <<"nothing_to_evaluate">>
    ELSE LET suggestions == Suggestion(qa, "accuracy_score", "accuracy")
                            \o Suggestion(qa, "coherence_score", "coherence")
                            \o Suggestion(qa, "clarity_score", "clarity")
                            \o Suggestion(qa, "completeness_score", "completeness")
         IN IF suggestions = <<>> THEN <<"quality_is_good">> ELSE suggestions

NoIssues == [low_accuracy |-> <<>>, poor_coherence |-> <<>>, unclear_content |-> <<>>,
             incomplete_information |-> <<>>, overall_low_quality |-> <<>>]

\* no analysis in progress
QIdle ==
    /\ q_pc = "idle"
    /\ q_assessments = <<>>
    /\ q_issues = NoIssues
    /\ q_suggestions = <<>>

\* the list of assessments evaluate_presentation_quality has collected
QInit ==
    /\ q_pc = "idle"
    /\ q_assessments \in SeqsUpTo(GateAssessments, MaxAssessments)
    /\ q_issues = NoIssues
    /\ q_suggestions = <<>>

\* quality_issues = self._analyze_quality_issues(quality_assessments)
q_analyze_quality_issues ==
    /\ q_pc = "idle"
    /\ q_issues' = _analyze_quality_issues(q_assessments)
    /\ q_pc' = "issues"
    /\ UNCHANGED <<q_assessments, q_suggestions>>
    /\ UNCHANGED <<pvars, gvars, rvars, bvars, lvars, hvars>>

\* improvement_suggestions = self._generate_improvement_suggestions(quality_assessments)
q_generate_improvement_suggestions ==
    /\ q_pc = "issues"
    /\ q_suggestions' = _generate_improvement_suggestions(q_assessments)
    /\ q_pc' = "done"
    /\ UNCHANGED <<q_assessments, q_issues>>
    /\ UNCHANGED <<pvars, gvars, rvars, bvars, lvars, hvars>>

GateNext ==
    \/ q_analyze_quality_issues
    \/ q_generate_improvement_suggestions

\* ------------------------------------------------------------ process_document
\* variant: the error of the failed output is left recoverable
error_output_recoverable ==
    [present |-> TRUE, status |-> FAILED,
     errors |-> <<[step |-> DOCUMENT_PARSING, is_recoverable |-> TRUE]>>,
     output_files |-> FALSE]

\* the WorkflowOutput built by process_document's except branch
error_output ==
    [present |-> TRUE, status |-> FAILED,
     errors |-> <<[step |-> DOCUMENT_PARSING, is_recoverable |-> FALSE]>>,
     output_files |-> FALSE]

\* WorkflowOutput.is_successful
is_successful(out) == out.status = COMPLETED /\ ~has_unrecoverable_errors(out.errors)

Init ==
    /\ configuration \in [max_retries : 0..MaxRetriesBound,
                          enable_optimization : BOOLEAN,
                          quality_threshold : Thresholds]
    /\ status = PENDING
    /\ current_step = "none"
    /\ step_results = <<>>
    /\ errors = <<>>
    /\ end_time = FALSE
    /\ processed_document = None
    /\ presentation_data = None
    /\ narration_data = FALSE
    /\ node = START
    /\ phase = "enter"
    /\ finalized = <<>>
    /\ at_terminal = NoSnapshot
    /\ output = None
    /\ GInit
    /\ RIdle
    /\ BInit
    /\ LIdle
    /\ HIdle
    /\ QIdle

\* the except branch of a node (fail_step, add_error, raise), the exception
\* leaving ainvoke, _execute_workflow's except branch (mark_failed, raise) and
\* process_document's except branch (the failed output); sr is the ledger at
\* the raise
NodeRaises(sr, step) ==
    /\ step_results' = fail_step(sr, step)
    /\ errors' = add_error(errors, step, TRUE)
    /\ status' = FAILED
    /\ end_time' = TRUE
    /\ finalized' = Append(finalized, "_execute_workflow")
    /\ at_terminal' = Snapshot(fail_step(sr, step), add_error(errors, step, TRUE), step)
    /\ node' = RAISED
    /\ phase' = "enter"
    /\ output' = error_output

\* the node completes its step and returns; the graph moves along its edge
NodeReturns(sr, step, data) ==
    /\ step_results' = complete_step(sr, step, data)
    /\ node' = _build_workflow_graph(node, complete_step(sr, step, data), configuration)
    /\ phase' = "enter"
    /\ UNCHANGED <<errors, status, end_time, finalized, at_terminal, output>>

\* the node starts its step and suspends at its external call
NodeAwaits(step) ==
    /\ step_results' = start_step(step_results, step)
    /\ phase' = "await"
    /\ UNCHANGED <<errors, status, end_time, finalized, at_terminal, output, node>>

\* PPTWorkflow.process_document up to ainvoke, with _execute_workflow
_execute_workflow ==
    /\ node = START
    /\ status' = RUNNING
    /\ node' = "document_parser"
    /\ UNCHANGED <<configuration, current_step, step_results, errors, end_time,
                   processed_document, presentation_data, narration_data, phase,
                   finalized, at_terminal, output>>
    /\ UNCHANGED <<gvars, rvars, bvars, lvars, hvars, qvars>>

\* _document_parsing_node up to parse_document; read_document may raise
_document_parsing_node_enter ==
    /\ node = "document_parser" /\ phase = "enter"
    /\ current_step' = DOCUMENT_PARSING
    /\ \/ NodeAwaits(DOCUMENT_PARSING)
       \/ NodeRaises(start_step(step_results, DOCUMENT_PARSING), DOCUMENT_PARSING)
    /\ UNCHANGED <<configuration, processed_document, presentation_data, narration_data>>
    /\ UNCHANGED <<gvars, rvars, bvars, lvars, hvars, qvars>>

_document_parsing_node_finish ==
    /\ node = "document_parser" /\ phase = "await"
    /\ \E secs \in ParsedSections :
          processed_document' = [present |-> TRUE, sections |-> secs]
    /\ NodeReturns(step_results, DOCUMENT_PARSING, StepData(FALSE))
    /\ UNCHANGED <<configuration, current_step, presentation_data, narration_data>>
    /\ UNCHANGED <<gvars, rvars, bvars, lvars, hvars, qvars>>

\* _quality_check_node up to validate_document_quality
_quality_check_node_enter ==
    /\ node = "quality_check" /\ phase = "enter"
    /\ current_step' = QUALITY_CHECK
    /\ IF ~processed_document.present \/ ~has_content(processed_document)
       THEN NodeRaises(start_step(step_results, QUALITY_CHECK), QUALITY_CHECK)
       ELSE NodeAwaits(QUALITY_CHECK)
    /\ UNCHANGED <<configuration, processed_document, presentation_data, narration_data>>
    /\ UNCHANGED <<gvars, rvars, bvars, lvars, hvars, qvars>>

\* _quality_check_node from the return of validate_document_quality.  The node
\* reads validation_result['is_valid'], a subscript on the DocumentValidationResult
\* object: the subscript raises TypeError (a pydantic model has no __getitem__),
\* which is the first branch; the second branch, in which the subscript yields
\* the field, keeps the rest of the graph as it is written
_quality_check_node_finish ==
    /\ node = "quality_check" /\ phase = "await"
    /\ \/ NodeRaises(step_results, QUALITY_CHECK)
       \/ IF ~validate_document_quality(processed_document).is_valid
          THEN NodeRaises(step_results, QUALITY_CHECK)
          ELSE NodeReturns(step_results, QUALITY_CHECK, StepData(FALSE))
    /\ UNCHANGED <<configuration, current_step, processed_document, presentation_data,
                   narration_data>>
    /\ UNCHANGED <<gvars, rvars, bvars, lvars, hvars, qvars>>

\* _slide_generation_node up to generate_slides
_slide_generation_node_enter ==
    /\ node = "slide_generator" /\ phase = "enter"
    /\ current_step' = SLIDE_GENERATION
    /\ IF ~processed_document.present
       THEN NodeRaises(start_step(step_results, SLIDE_GENERATION), SLIDE_GENERATION)
       ELSE NodeAwaits(SLIDE_GENERATION)
    /\ UNCHANGED <<configuration, processed_document, presentation_data, narration_data>>
    /\ UNCHANGED <<gvars, rvars, bvars, lvars, hvars, qvars>>

_slide_generation_node_finish ==
    /\ node = "slide_generator" /\ phase = "await"
    /\ \E ok \in SUBSET (1..Len(processed_document.sections)) :
          presentation_data' = generate_slides(processed_document.sections, ok)
    /\ NodeReturns(step_results, SLIDE_GENERATION, StepData(FALSE))
    /\ UNCHANGED <<configuration, current_step, processed_document, narration_data>>
    /\ UNCHANGED <<gvars, rvars, bvars, lvars, hvars, qvars>>

\* _quality_evaluation_node up to evaluate_presentation_quality
_quality_evaluation_node_enter ==
    /\ node = "quality_evaluator" /\ phase = "enter"
    /\ current_step' = QUALITY_EVALUATION
    /\ IF ~presentation_data.present \/ ~processed_document.present
       THEN NodeRaises(start_step(step_results, QUALITY_EVALUATION), QUALITY_EVALUATION)
       ELSE NodeAwaits(QUALITY_EVALUATION)
    /\ UNCHANGED <<configuration, processed_document, presentation_data, narration_data>>
    /\ UNCHANGED <<gvars, rvars, bvars, lvars, hvars, qvars>>

\* evaluate_presentation_quality raises when get_provider does; otherwise every
\* slide gets an assessment (its own or the fixed one of a failed evaluation)
_quality_evaluation_node_finish ==
    /\ node = "quality_evaluator" /\ phase = "await"
    /\ \/ NodeRaises(step_results, QUALITY_EVALUATION)
       \/ \E as \in [1..Len(presentation_data.slides) -> EvalOutcomes] :
             NodeReturns(step_results, QUALITY_EVALUATION,
                 StepData(evaluate_presentation_quality(as, configuration.quality_threshold).needs_optimization))
    /\ UNCHANGED <<configuration, current_step, processed_document, presentation_data,
                   narration_data>>
    /\ UNCHANGED <<gvars, rvars, bvars, lvars, hvars, qvars>>

\* _slide_optimization_node up to optimize_low_quality_slides
_slide_optimization_node_enter ==
    /\ node = "slide_optimizer" /\ phase = "enter"
    /\ current_step' = SLIDE_OPTIMIZATION
    /\ IF ~presentation_data.present \/ ~processed_document.present
       THEN NodeRaises(start_step(step_results, SLIDE_OPTIMIZATION), SLIDE_OPTIMIZATION)
       ELSE NodeAwaits(SLIDE_OPTIMIZATION)
    /\ UNCHANGED <<configuration, processed_document, presentation_data, narration_data>>
    /\ UNCHANGED <<gvars, rvars, bvars, lvars, hvars, qvars>>

_slide_optimization_node_finish ==
    /\ node = "slide_optimizer" /\ phase = "await"
    /\ \/ /\ NodeRaises(step_results, SLIDE_OPTIMIZATION)
          /\ UNCHANGED presentation_data
       \/ /\ \E oc \in [1..Len(presentation_data.slides) -> OptOutcomes] :
                presentation_data' = optimize_low_quality_slides(presentation_data, oc)
          /\ NodeReturns(step_results, SLIDE_OPTIMIZATION, StepData(FALSE))
    /\ UNCHANGED <<configuration, current_step, processed_document, narration_data>>
    /\ UNCHANGED <<gvars, rvars, bvars, lvars, hvars, qvars>>

\* _narration_generation_node up to generate_presentation_narration
_narration_generation_node_enter ==
    /\ node = "narration_generator" /\ phase = "enter"
    /\ current_step' = NARRATION_GENERATION
    /\ IF ~presentation_data.present
       THEN NodeRaises(start_step(step_results, NARRATION_GENERATION), NARRATION_GENERATION)
       ELSE NodeAwaits(NARRATION_GENERATION)
    /\ UNCHANGED <<configuration, processed_document, presentation_data, narration_data>>
    /\ UNCHANGED <<gvars, rvars, bvars, lvars, hvars, qvars>>

_narration_generation_node_finish ==
    /\ node = "narration_generator" /\ phase = "await"
    /\ \/ /\ NodeRaises(step_results, NARRATION_GENERATION)
          /\ UNCHANGED narration_data
       \/ /\ narration_data' = TRUE
          /\ NodeReturns(step_results, NARRATION_GENERATION, StepData(FALSE))
    /\ UNCHANGED <<configuration, current_step, processed_document, presentation_data>>
    /\ UNCHANGED <<gvars, rvars, bvars, lvars, hvars, qvars>>

\* variant: the node does not call mark_completed
_output_assembly_node_without_mark_completed ==
    /\ node = "output_assembler" /\ phase = "enter"
    /\ current_step' = OUTPUT_ASSEMBLY
    /\ step_results' = complete_step(start_step(step_results, OUTPUT_ASSEMBLY),
                                     OUTPUT_ASSEMBLY, StepData(FALSE))
    /\ node' = _build_workflow_graph(node, step_results', configuration)
    /\ UNCHANGED <<configuration, errors, processed_document, presentation_data,
                   narration_data, phase, output, status, end_time, finalized, at_terminal>>
    /\ UNCHANGED <<gvars, rvars, bvars, lvars, hvars, qvars>>

\* _output_assembly_node: start_step, mark_completed, complete_step
_output_assembly_node ==
    /\ node = "output_assembler" /\ phase = "enter"
    /\ current_step' = OUTPUT_ASSEMBLY
    /\ status' = COMPLETED
    /\ end_time' = TRUE
    /\ finalized' = Append(finalized, "_output_assembly_node")
    /\ at_terminal' = Snapshot(start_step(step_results, OUTPUT_ASSEMBLY), errors, OUTPUT_ASSEMBLY)
    /\ step_results' = complete_step(start_step(step_results, OUTPUT_ASSEMBLY),
                                     OUTPUT_ASSEMBLY, StepData(FALSE))
    /\ node' = _build_workflow_graph(node, step_results', configuration)
    /\ UNCHANGED <<configuration, errors, processed_document, presentation_data,
                   narration_data, phase, output>>
    /\ UNCHANGED <<gvars, rvars, bvars, lvars, hvars, qvars>>

\* _error_handler_node: mark_failed with the last error's message.  No run gets
\* here (a failing node raises instead of returning), so Next leaves it out.
_error_handler_node ==
    /\ node = "error_handler" /\ phase = "enter"
    /\ status' = FAILED
    /\ end_time' = TRUE
    /\ finalized' = Append(finalized, "_error_handler_node")
    /\ at_terminal' = Snapshot(step_results, errors, current_step)
    /\ node' = _build_workflow_graph(node, step_results, configuration)
    /\ UNCHANGED <<configuration, current_step, step_results, errors, processed_document,
                   presentation_data, narration_data, phase, output>>
    /\ UNCHANGED <<gvars, rvars, bvars, lvars, hvars, qvars>>

\* process_document after ainvoke returned: _create_workflow_output, then the
\* output files when is_successful; create_complete_output may raise
process_document ==
    /\ node = END /\ ~output.present
    /\ LET out == [present |-> TRUE, status |-> status, errors |-> errors, output_files |-> FALSE]
       IN IF is_successful(out)
          THEN \/ output' = [out EXCEPT !.output_files = TRUE]
               \/ output' = error_output
          ELSE output' = out
    /\ UNCHANGED <<configuration, status, current_step, step_results, errors, end_time,
                   processed_document, presentation_data, narration_data, node, phase,
                   finalized, at_terminal>>
    /\ UNCHANGED <<gvars, rvars, bvars, lvars, hvars, qvars>>

Next ==
    \/ _execute_workflow
    \/ _document_parsing_node_enter
    \/ _document_parsing_node_finish
    \/ _quality_check_node_enter
    \/ _quality_check_node_finish
    \/ _slide_generation_node_enter
    \/ _slide_generation_node_finish
    \/ _quality_evaluation_node_enter
    \/ _quality_evaluation_node_finish
    \/ _slide_optimization_node_enter
    \/ _slide_optimization_node_finish
    \/ _narration_generation_node_enter
    \/ _narration_generation_node_finish
    \/ _output_assembly_node
    \/ process_document

Spec == Init /\ [][Next]_vars

\* one call of _generate_single_slide_with_quality_control, made for one section
\* while the run is in its slide_generation step
GenInit ==
    /\ configuration \in [max_retries : {0}, enable_optimization : {TRUE},
                          quality_threshold : Thresholds]
    /\ status = RUNNING
    /\ current_step = SLIDE_GENERATION
    /\ step_results = <<[step |-> DOCUMENT_PARSING, status |-> COMPLETED, data |-> StepData(FALSE)],
                        [step |-> QUALITY_CHECK, status |-> COMPLETED, data |-> StepData(FALSE)],
                        [step |-> SLIDE_GENERATION, status |-> RUNNING, data |-> NoData]>>
    /\ errors = <<>>
    /\ end_time = FALSE
    /\ processed_document = [present |-> TRUE, sections |-> <<"ok">>]
    /\ presentation_data = None
    /\ narration_data = FALSE
    /\ node = "slide_generator"
    /\ phase = "await"
    /\ finalized = <<>>
    /\ at_terminal = NoSnapshot
    /\ output = None
    /\ GInit
    /\ RIdle
    /\ BInit
    /\ LIdle
    /\ HIdle
    /\ QIdle

GenSpec == GenInit /\ [][GenNext]_vars

\* the coroutine is resumed whenever the call it awaits ends
GenLiveSpec == GenInit /\ [][GenNext]_vars /\ WF_vars(GenNext)

\* the run is at an awaited call of one of its nodes
AtSlideGeneration ==
    /\ configuration = [max_retries |-> 0, enable_optimization |-> TRUE, quality_threshold |-> 80]
    /\ status = RUNNING
    /\ current_step = SLIDE_GENERATION
    /\ step_results = <<[step |-> DOCUMENT_PARSING, status |-> COMPLETED, data |-> StepData(FALSE)],
                        [step |-> QUALITY_CHECK, status |-> COMPLETED, data |-> StepData(FALSE)],
                        [step |-> SLIDE_GENERATION, status |-> RUNNING, data |-> NoData]>>
    /\ errors = <<>>
    /\ end_time = FALSE
    /\ processed_document = [present |-> TRUE, sections |-> <<"ok">>]
    /\ presentation_data = None
    /\ narration_data = FALSE
    /\ node = "slide_generator"
    /\ phase = "await"
    /\ finalized = <<>>
    /\ at_terminal = NoSnapshot
    /\ output = None

\* a ProviderRouter after its construction, and the calls made on it
RouterInit ==
    /\ AtSlideGeneration
    /\ GInit
    /\ RInit
    /\ BInit
    /\ LIdle
    /\ HIdle
    /\ QIdle

RouterSpec == RouterInit /\ [][RouterNext]_vars

\* one call of generate_slides or of evaluate_presentation_quality
BatchInit ==
    /\ AtSlideGeneration
    /\ GInit
    /\ RIdle
    /\ BInit
    /\ LIdle
    /\ HIdle
    /\ QIdle

BatchSpec == BatchInit /\ [][BatchNext]_vars

\* any sequence of ledger calls on one WorkflowState
LedgerInit ==
    /\ AtSlideGeneration
    /\ GInit
    /\ RIdle
    /\ BInit
    /\ LInit
    /\ HIdle
    /\ QIdle

LedgerSpec == LedgerInit /\ [][LedgerNext]_vars

\* calls on one provider from two coroutines
ProviderInit ==
    /\ AtSlideGeneration
    /\ GInit
    /\ RIdle
    /\ BInit
    /\ LIdle
    /\ HIdle
    /\ QIdle

ProviderSpec == ProviderInit /\ [][ProviderNext]_vars

\* the analysis of the assessments of one evaluate_presentation_quality call
GateInit ==
    /\ AtSlideGeneration
    /\ GInit
    /\ RIdle
    /\ BInit
    /\ LIdle
    /\ HIdle
    /\ QInit

GateSpec == GateInit /\ [][GateNext]_vars

\* every step of a run is taken: the event loop runs the one task of the run,
\* and an external call returns or fails
LiveSpec == Init /\ [][Next]_vars /\ WF_vars(Next)


\* ===================================================== claims on the pipeline
Last(s) == s[Len(s)]

Started(step) == {i \in DOMAIN step_results : step_results[i].step = step}

Terminated == node \in {END, RAISED}

\* the transition table of the step graph, as pairs of consecutively started steps
TransitionTable ==
    {<<DOCUMENT_PARSING, QUALITY_CHECK>>,
     <<QUALITY_CHECK, SLIDE_GENERATION>>,
     <<SLIDE_GENERATION, QUALITY_EVALUATION>>,
     <<QUALITY_EVALUATION, NARRATION_GENERATION>>,
     <<QUALITY_EVALUATION, SLIDE_OPTIMIZATION>>,
     <<QUALITY_EVALUATION, SLIDE_GENERATION>>,
     <<SLIDE_OPTIMIZATION, NARRATION_GENERATION>>,
     <<NARRATION_GENERATION, OUTPUT_ASSEMBLY>>}

StartsAlongTable ==
    Len(step_results') # Len(step_results) =>
        /\ Len(step_results') = Len(step_results) + 1
        /\ status # FAILED
        /\ IF step_results = <<>>
           THEN Last(step_results').step = DOCUMENT_PARSING
           ELSE <<Last(step_results).step, Last(step_results').step>> \in TransitionTable

\* C1: the first step started is document_parsing, every later started step
\* follows the previously started one along an edge of the transition table,
\* no step is started after output_assembly (it has no outgoing edge) and none
\* after the run has failed.
C1_StepsFollowTransitionTable == [][StartsAlongTable]_vars

C1_Witness ==
    /\ node = END
    /\ Started(SLIDE_OPTIMIZATION) # {}
    /\ Started(OUTPUT_ASSEMBLY) # {}

\* C2: for every max_retries the run terminates, and slide_generation is
\* started at most max_retries + 2 times.
C2_BoundedGenerationAndTermination ==
    /\ [](Cardinality(Started(SLIDE_GENERATION)) <= configuration.max_retries + 2)
    /\ <>Terminated

C2_Witness ==
    /\ Terminated
    /\ configuration.max_retries > 0
    /\ Cardinality(Started(SLIDE_GENERATION)) = 1
    /\ is_step_failed(step_results, QUALITY_EVALUATION)

\* C3: a terminated run is completed exactly if it reached output_assembly,
\* whatever the number of failed or degraded items; it is failed only when it
\* ended by the error path.
C3_CompletedIffAssembly ==
    /\ status = COMPLETED <=> Started(OUTPUT_ASSEMBLY) # {}
    /\ status = FAILED => node = RAISED
    /\ Terminated => status \in {COMPLETED, FAILED}
    /\ Terminated /\ Started(OUTPUT_ASSEMBLY) = {} => status = FAILED

C3_Witness ==
    /\ node = END
    /\ status = COMPLETED
    /\ presentation_data.present
    /\ Len(presentation_data.failed_slides) > 0
    /\ Len(presentation_data.slides) = 0

\* C4 (as claimed): a failed quality_evaluation attempt does not end the run as
\* failed; the next step started is slide_generation while
\* get_retry_count(slide_generation) < max_retries, narration_generation otherwise.
C4_EvaluationFailureRetriesOrDegrades ==
    \A i \in DOMAIN step_results :
        step_results[i].step = QUALITY_EVALUATION /\ step_results[i].status = FAILED =>
            /\ ~(status = FAILED /\ i = Len(step_results))
            /\ i < Len(step_results) =>
                  step_results[i + 1].step =
                      IF get_retry_count(SubSeq(step_results, 1, i), SLIDE_GENERATION)
                            < configuration.max_retries
                      THEN SLIDE_GENERATION ELSE NARRATION_GENERATION

EvaluationAsksOptimization(i) ==
    /\ step_results[i].status = COMPLETED
    /\ step_results[i].data.needs_optimization
    /\ configuration.enable_optimization

\* C5: slide_optimization is the step started after quality_evaluation exactly
\* if that evaluation completed with needs_optimization and enable_optimization
\* is set; a completed evaluation is otherwise followed by narration_generation;
\* with enable_optimization off the ledger never holds a slide_optimization attempt.
C5_OptimizationIffNeededAndEnabled ==
    /\ \A i \in DOMAIN step_results :
          step_results[i].step = QUALITY_EVALUATION /\ step_results[i].status = COMPLETED =>
             /\ i < Len(step_results) =>
                   step_results[i + 1].step =
                       IF EvaluationAsksOptimization(i) THEN SLIDE_OPTIMIZATION
                       ELSE NARRATION_GENERATION
             /\ i = Len(step_results) =>
                   node = IF EvaluationAsksOptimization(i) THEN "slide_optimizer"
                          ELSE "narration_generator"
    /\ \A i \in DOMAIN step_results :
          step_results[i].step = SLIDE_OPTIMIZATION =>
             /\ i > 1
             /\ step_results[i - 1].step = QUALITY_EVALUATION
             /\ EvaluationAsksOptimization(i - 1)
    /\ ~configuration.enable_optimization => Started(SLIDE_OPTIMIZATION) = {}

C5_Witness ==
    /\ Started(SLIDE_OPTIMIZATION) # {}
    /\ Started(NARRATION_GENERATION) # {}

\* C6 (as claimed): a step failure recorded with is_recoverable = true never
\* ends the run, and a failed run has an error with is_recoverable = false in
\* its error list.
C6_RecoverableFailureNeverEndsRun ==
    /\ status = FAILED => has_unrecoverable_errors(errors)
    /\ \A i \in DOMAIN errors :
          errors[i].is_recoverable => ~(status = FAILED /\ i = Len(errors))

\* ============================================ claims on the slide generator
\* the generate call number i is the one of attempt i - 1
AttemptNumber(slide) == slide.attempt + 1

OptimizeCallsUpTo(slide) == slide.attempt + (IF slide.kind = "optimized" THEN 1 ELSE 0)

\* C7: the first score whose passed flag is set, of a generated slide or of a
\* revision, ends the call: it is the last score obtained, that slide and that
\* score are returned with attempts = the current attempt number, and no
\* generate or optimize call beyond those of that attempt was made; the verdict
\* is the flag alone (scores below the threshold pass, scores above it fail);
\* when attempt 1 passes there was 1 generate call, 1 evaluate call, no optimize call.
C7_FirstPassEndsCall ==
    /\ \A i \in DOMAIN evals :
          evals[i].quality.passed =>
             /\ i = Len(evals)
             /\ g_pc = "returned"
             /\ result.slide = evals[i].slide
             /\ result.quality_info = evals[i].quality
             /\ result.attempts = AttemptNumber(evals[i].slide)
             /\ calls.generate = AttemptNumber(evals[i].slide)
             /\ calls.optimize <= OptimizeCallsUpTo(evals[i].slide)
             /\ calls.evaluate <= calls.generate + calls.optimize
    /\ evals # <<>> /\ evals[1].quality.passed /\ evals[1].slide = Slide(0, "generated") =>
          calls = [generate |-> 1, evaluate |-> 1, optimize |-> 0]
    /\ g_pc \in {"returned", "raised"} => ~ENABLED GenNext

C7_Witness ==
    /\ g_pc = "returned"
    /\ result.slide = Slide(1, "optimized")
    /\ result.quality_info = Quality(60, TRUE)
    /\ \E i \in DOMAIN evals : ~evals[i].quality.passed /\ evals[i].quality.overall_score = 90

NoScorePassed == \A i \in DOMAIN evals : ~evals[i].quality.passed

\* the first of the scores obtained that no other score exceeds
FirstHighest ==
    CHOOSE m \in DOMAIN evals :
        /\ \A k \in DOMAIN evals : evals[k].quality.overall_score <= evals[m].quality.overall_score
        /\ \A k \in 1..(m - 1) : evals[k].quality.overall_score < evals[m].quality.overall_score

GeneratedScores == SelectSeq(evals, LAMBDA e : e.slide.kind = "generated")

\* C8: when no score obtained in the call has passed set, the slide and score
\* returned are those of the highest overall score among all slides scored
\* (generated or revised), the first one scored among equals; with generated
\* scores 60, 75, 65 and no higher revision a slide scored 75 is returned, the
\* generated one when every revision scored lower.
C8_BestCandidateReturned ==
    g_pc = "returned" /\ NoScorePassed /\ evals # <<>> =>
        /\ result.slide = evals[FirstHighest].slide
        /\ result.quality_info = evals[FirstHighest].quality
        /\ (/\ Len(GeneratedScores) = 3
            /\ GeneratedScores[1].quality.overall_score = 60
            /\ GeneratedScores[2].quality.overall_score = 75
            /\ GeneratedScores[3].quality.overall_score = 65
            /\ \A k \in DOMAIN evals : evals[k].quality.overall_score <= 75)
           => /\ result.quality_info.overall_score = 75
              /\ (\A k \in DOMAIN evals :
                     evals[k].slide.kind = "optimized" => evals[k].quality.overall_score < 75)
                 => result.slide = Slide(1, "generated")

C8_Witness ==
    /\ g_pc = "returned"
    /\ NoScorePassed
    /\ Len(evals) = 5
    /\ Len(GeneratedScores) = 3
    /\ GeneratedScores[1].quality.overall_score = 60
    /\ GeneratedScores[2].quality.overall_score = 75
    /\ GeneratedScores[3].quality.overall_score = 65
    /\ evals[4].slide = Slide(1, "optimized")
    /\ evals[4].quality.overall_score = 75
    /\ result.slide = Slide(1, "generated")

\* C9 (as claimed): once generation has been attempted the call never raises;
\* when every generate call failed it returns the fallback slide with the
\* fallback score (0.5, not passed) and attempts = max_retry_attempts.
C9_NeverRaisesAndDegrades ==
    /\ gen_outcomes # <<>> => g_pc # "raised"
    /\ (/\ Len(gen_outcomes) = max_retry_attempts
        /\ \A i \in DOMAIN gen_outcomes : gen_outcomes[i] = "failed")
       => /\ g_pc = "returned"
          /\ result.slide = _create_fallback_slide
          /\ result.quality_info = Quality(50, FALSE)
          /\ result.attempts = max_retry_attempts

\* C10 (as claimed): a failed generate call is the last generate call of the
\* call, which ends by raising.
C10_FailedGenerationPropagates ==
    \A i \in DOMAIN gen_outcomes :
        gen_outcomes[i] = "failed" => i = Len(gen_outcomes) /\ g_pc = "raised"

\* C10 (amended): a generate call that fails on the last attempt ends the call
\* by raising; one that fails on an earlier attempt is followed by the next
\* attempt's generate call; the loop raises for no other generate failure.
C10_OnlyFinalFailurePropagates ==
    /\ \A i \in DOMAIN gen_outcomes :
          gen_outcomes[i] = "failed" =>
             IF i = max_retry_attempts
             THEN g_pc = "raised" /\ i = Len(gen_outcomes)
             ELSE i < Len(gen_outcomes) \/ (g_pc = "generate" /\ attempt = i)
    /\ g_pc = "raised" /\ gen_outcomes # <<>> =>
          Len(gen_outcomes) = max_retry_attempts /\ Last(gen_outcomes) = "failed"

C10_Witness ==
    /\ g_pc = "raised"
    /\ Len(gen_outcomes) = max_retry_attempts
    /\ gen_outcomes[1] = "failed"
    /\ gen_outcomes[2] = "ok"
    /\ best_slide.present

\* C11: when the evaluation of a freshly generated slide raises, the call neither
\* raises nor goes on to another attempt: the substituted score is 0.7 with
\* passed = true, it is the last evaluation of the call, and the call has
\* returned that slide with that score and attempts equal to the number of the
\* attempt that generated it.
C11_FailedEvaluationReturnsNeutralScore ==
    \A i \in DOMAIN evals :
        evals[i].substituted =>
            /\ evals[i].slide.kind = "generated"
            /\ evals[i].quality = Quality(70, TRUE)
            /\ i = Len(evals)
            /\ g_pc = "returned"
            /\ ~ENABLED GenNext
            /\ result.present
            /\ result.slide = evals[i].slide
            /\ result.quality_info = evals[i].quality
            /\ result.attempts = AttemptNumber(evals[i].slide)
            /\ calls.generate = AttemptNumber(evals[i].slide)

\* the second attempt's evaluation raised after a first attempt that did not pass
C11_Witness ==
    /\ Len(evals) >= 2
    /\ Last(evals).substituted
    /\ ~evals[1].quality.passed
    /\ g_pc = "returned"
    /\ result.attempts = 2

\* =================================================== claims on the provider router
\* the provider methods the call awaited, in order
Invocations == SelectSeq(r_invoked, LAMBDA t : t.obtained)

\* the positions of r_invoked at which a provider's method returned
Successes == {k \in DOMAIN r_invoked : r_invoked[k].obtained /\ ~r_invoked[k].raised}

primary_provider == IF r_start.preferred # "" THEN r_start.preferred ELSE r_start.default

\* the providers registered when the call began, the first candidate first when
\* it is one of them, then the others in registration order, healthy or not
RegisteredInTryingOrder ==
    (IF primary_provider \in Registered(r_start.providers) THEN <<primary_provider>> ELSE <<>>)
        \o SelectSeq(r_start.providers, LAMBDA n : n # primary_provider)

PositionIn(seq, x) == CHOOSE k \in DOMAIN seq : seq[k] = x

UnhealthyAtStart(n) == ~is_healthy(r_start.stats[n])

InvokedAndFailed(n) ==
    \E k \in DOMAIN r_invoked :
        r_invoked[k].provider = n /\ r_invoked[k].obtained /\ r_invoked[k].raised

\* C12 as stated: when, of the registered providers taken in the order the call
\* goes through them, the first M are unhealthy or fail and the next one
\* succeeds, the call makes exactly M + 1 provider invocations.
C12_ExactlyMPlusOneInvocations ==
    (/\ r_kind = "fallback" /\ r_pc = "returned"
     /\ r_outcome.provider \in Registered(r_start.providers)
     /\ primary_provider \in Registered(r_start.providers) \cup {UnknownProvider})
    => LET T == RegisteredInTryingOrder
           M == PositionIn(T, r_outcome.provider) - 1
       IN (\A k \in 1..M : UnhealthyAtStart(T[k]) \/ InvokedAndFailed(T[k]))
              => Len(Invocations) = M + 1

\* C12 (amended): a call of execute_with_fallback has at most one successful
\* invocation, it is the last thing the call does, and the call returns that
\* provider's result.  The candidates are tried in the order of provider_names,
\* each once: when the first M candidates whose provider could be obtained fail
\* and the next one succeeds, exactly M + 1 invocations occur; a provider left
\* out of provider_names as unhealthy, and a first candidate that could not be
\* obtained, are not invoked and do not count.
C12_OneSuccessEndsTheCall ==
    r_kind = "fallback" =>
        /\ Cardinality(Successes) <= 1
        /\ \A k \in Successes : k = Len(r_invoked) /\ r_pc = "returned"
        /\ \A k \in DOMAIN r_invoked : k <= Len(r_names) /\ r_invoked[k].provider = r_names[k]
        /\ r_pc = "returned" =>
              /\ Successes = {Len(r_invoked)}
              /\ r_outcome = Returned(Last(r_invoked).provider)
              /\ LET M == Cardinality({k \in DOMAIN r_invoked : r_invoked[k].obtained /\ r_invoked[k].raised})
                 IN /\ Len(Invocations) = M + 1
                    /\ \A k \in 1..(Len(r_invoked) - 1) :
                          r_invoked[k].obtained \/ (k = 1 /\ r_names[1] \notin Registered(r_start.providers))
        /\ r_pc \in {"returned", "raised"} => ~ENABLED r_try_provider

\* the first candidate, unhealthy when the call began, failed and the second returned
C12_Witness ==
    /\ r_kind = "fallback" /\ r_pc = "returned"
    /\ Len(Invocations) = 2
    /\ Invocations[1].raised /\ ~Invocations[2].raised
    /\ primary_provider \in Registered(r_start.providers)
    /\ UnhealthyAtStart(primary_provider)

\* the position of provider n among the keys of the providers dict when the call began
RegistrationIndex(n) == PositionIn(r_start.providers, n)

\* C13: execute_with_fallback tries the preferred provider when one is given,
\* otherwise the default provider, first; then the other registered providers
\* that are healthy when the call begins, each once, in registration order.  The
\* candidates are tried in that order, a registered provider other than the
\* first candidate that is unhealthy is never invoked by the call, and no
\* provider is invoked twice.
C13_CandidateOrder ==
    r_kind = "fallback" =>
        /\ Len(r_names) >= 1
        /\ r_names[1] = (IF r_start.preferred # "" THEN r_start.preferred ELSE r_start.default)
        /\ \A n \in Registered(r_start.providers) \ {r_names[1]} :
              Cardinality({k \in 2..Len(r_names) : r_names[k] = n})
                  = (IF is_healthy(r_start.stats[n]) THEN 1 ELSE 0)
        /\ \A k \in 2..Len(r_names) :
              r_names[k] \in Registered(r_start.providers) \ {r_names[1]}
        /\ \A j, k \in 2..Len(r_names) :
              j < k => RegistrationIndex(r_names[j]) < RegistrationIndex(r_names[k])
        /\ \A k \in DOMAIN r_invoked : r_invoked[k].provider = r_names[k]
        /\ \A n \in Registered(r_start.providers) \ {r_names[1]} :
              UnhealthyAtStart(n) => \A k \in DOMAIN r_invoked : r_invoked[k].provider # n
        /\ \A j, k \in DOMAIN r_invoked : j # k => r_invoked[j].provider # r_invoked[k].provider

\* a preferred provider that cannot be obtained, then the two registered
\* providers in registration order, the default provider being the second of them
C13_Witness ==
    /\ r_kind = "fallback"
    /\ r_start.preferred = UnknownProvider
    /\ Len(r_start.providers) = 2
    /\ r_start.default = r_start.providers[2]
    /\ Len(Invocations) = 2
    /\ Invocations[1].provider = r_start.providers[1]
    /\ Invocations[2].provider = r_start.providers[2]

\* C14: when execute_with_fallback raises after at least one candidate was
\* invoked, with every invocation failed, it raises the error of the last
\* candidate tried; when no provider is registered, it raises its own "no
\* provider available" error, not a provider's error and not get_provider's.
C14_ErrorOfLastCandidateOrNoProvider ==
    (r_kind = "fallback" /\ r_pc = "raised") =>
        /\ Invocations # <<>> => r_outcome.error = r_last_exception
        /\ Invocations # <<>> /\ Last(r_invoked).obtained =>
              r_outcome.error = ProviderError(Last(r_invoked).provider)
        /\ r_start.providers = <<>> /\ Invocations = <<>> =>
              r_outcome.error = NoProviderAvailable

\* C15: a provider call made by a node fails only when every candidate has
\* failed: when the default provider's method raises while another registered
\* provider, healthy when the call begins, would return for the same arguments,
\* the node gets that provider's result.
C15_NodeCallFailsOnlyWhenAllFail ==
    (/\ r_kind = "direct" /\ r_pc = "raised"
     /\ Invocations # <<>>)
    => ~\E n \in Registered(r_start.providers) \ {r_start.default} :
            is_healthy(r_start.stats[n]) /\ ~r_will[n].raised

\* ======================================================= claims on batch calls
\* the number of positions of seq that hold x
Occurrences(seq, x) == Cardinality({k \in DOMAIN seq : seq[k] = x})

\* the sections the slides of the output were made from, in output order
SlideSections == [k \in DOMAIN b_output.slides |-> b_output.slides[k].section]

\* the slides the assessments of the output are about, in output order
AssessedSlides == [k \in DOMAIN b_output.quality_assessments |-> b_output.quality_assessments[k].unit]

\* C16: generate_slides never raises because a per-item generation raised: for
\* every combination of per-item outcomes it returns; a unit whose generation
\* raised has exactly one failure record, carrying its input position, and no
\* slide; every other unit has exactly one slide and no failure record; slides
\* plus failure records are as many as the input units.
C16_EveryUnitYieldsItemOrFailureRecord ==
    b_kind = "generate" =>
        /\ b_pc # "raised"
        /\ (b_pc = "gather" /\ b_pending = {}) => ENABLED b_generate_slides_returns
        /\ b_pc = "returned" =>
              /\ b_output.present
              /\ \A i \in 1..b_n :
                    /\ Occurrences(b_output.failed_slides, i) = (IF b_raw[i].raised THEN 1 ELSE 0)
                    /\ Occurrences(SlideSections, i) = (IF b_raw[i].raised THEN 0 ELSE 1)
              /\ Len(b_output.slides) + Len(b_output.failed_slides) = b_n
              /\ LET pd == generate_slides([i \in 1..b_n |-> "ok"], {i \in 1..b_n : ~b_raw[i].raised})
                 IN b_output.slides = pd.slides /\ b_output.failed_slides = pd.failed_slides

\* of three units the second one's generation raised
C16_Witness ==
    /\ b_kind = "generate" /\ b_pc = "returned"
    /\ b_n = 3
    /\ ~b_raw[1].raised /\ b_raw[2].raised /\ ~b_raw[3].raised

Ordered(seq) == \A j, k \in DOMAIN seq : j < k => seq[j] < seq[k]

\* C17: whatever the order in which the tasks of a batch finish, the results
\* are in the order of the input units: of two units with a result in the same
\* list of the output (slides, failure records, assessments), the one that comes
\* first in the input comes first in the list.
C17_ResultsInInputOrder ==
    b_pc = "returned" =>
        /\ Ordered(SlideSections)
        /\ Ordered(b_output.failed_slides)
        /\ Ordered(AssessedSlides)
        /\ Ordered(b_output.failed_assessments)
        /\ \A k \in 1..b_n : gather(b_results, b_order)[k].unit = k

\* the three tasks finished last first, and every unit has its result
C17_Witness ==
    /\ b_pc = "returned"
    /\ b_n = 3
    /\ b_order = <<3, 2, 1>>
    /\ Len(b_output.slides) = 3 \/ Len(b_output.quality_assessments) = 3

\* the score and the verdict item i of an evaluate batch goes into the sums with
ItemScore(i) == IF b_raw[i].raised THEN 60 ELSE b_raw[i].overall_score

ItemPassed(i) == ~b_raw[i].raised /\ b_raw[i].passed

RECURSIVE TotalScore(_)
TotalScore(n) == IF n = 0 THEN 0 ELSE ItemScore(n) + TotalScore(n - 1)

PassedItems == {i \in 1..b_n : ItemPassed(i)}

C19_EmptyBatchNeedsNoOptimization ==
    (b_kind = "evaluate" /\ b_pc = "returned" /\ b_n = 0) => ~b_output.needs_optimization

\* C20: an evaluate_slide_quality call that raises for one slide does not make
\* evaluate_presentation_quality raise: once the tasks are launched the call
\* returns, the slide gets the fixed assessment (0.6, passed = false), which is
\* counted in the average and in the pass rate like the others, and every other
\* slide keeps the score and verdict its own evaluation returned.
C20_FailedEvaluationIsIsolated ==
    b_kind = "evaluate" =>
        /\ b_pc = "raised" => b_order = <<>> /\ b_pending = {}
        /\ (b_pc = "gather" /\ b_pending = {}) => ENABLED b_evaluate_presentation_quality_returns
        /\ b_pc = "returned" =>
              /\ Len(b_output.quality_assessments) = b_n
              /\ b_output.failed_assessments = <<>>
              /\ \A i \in 1..b_n :
                    /\ b_output.quality_assessments[i].unit = i
                    /\ b_raw[i].raised =>
                          /\ b_output.quality_assessments[i].overall_score = 60
                          /\ ~b_output.quality_assessments[i].passed
                    /\ ~b_raw[i].raised =>
                          /\ b_output.quality_assessments[i].overall_score = b_raw[i].overall_score
                          /\ b_output.quality_assessments[i].passed = b_raw[i].passed
              /\ b_output.average_quality_score = [total_score |-> TotalScore(b_n), assessed |-> b_n]
              /\ b_output.passed_slides = Cardinality(PassedItems)
              /\ b_output.total_slides = b_n

\* of three slides the evaluation of the second raised, the other two passed
C20_Witness ==
    /\ b_kind = "evaluate" /\ b_pc = "returned"
    /\ b_n = 3
    /\ b_raw[2].raised
    /\ ItemPassed(1) /\ ItemPassed(3)
    /\ b_output.passed_slides = 2

\* ============================================== more claims on the pipeline
AttemptsOf(step) == Cardinality(Started(step))

AllSectionsValid ==
    processed_document.present
        /\ \A i \in DOMAIN processed_document.sections : processed_document.sections[i] = "ok"

\* no external call of the run failed: no error is recorded for a step other
\* than quality_check (which calls no provider), and no slide failed to generate
NoProviderFailure ==
    /\ \A i \in DOMAIN errors : errors[i].step = QUALITY_CHECK
    /\ presentation_data.present => presentation_data.failed_slides = <<>>

\* C21: a run over n >= 1 valid sections, with optimization disabled, in which
\* no provider call failed, ends completed with n slides, one per section in
\* section order; document_parsing, quality_check, slide_generation,
\* quality_evaluation, narration_generation and output_assembly each have
\* exactly one attempt, completed, and retry count 0; slide_optimization has no
\* attempt.
C21_CleanRunHasOneAttemptPerStep ==
    (/\ Terminated
     /\ ~configuration.enable_optimization
     /\ AllSectionsValid
     /\ NoProviderFailure)
    => /\ status = COMPLETED
       /\ node = END
       /\ presentation_data.present
       /\ Len(presentation_data.slides) = Len(processed_document.sections)
       /\ \A k \in DOMAIN presentation_data.slides : presentation_data.slides[k].section = k
       /\ \A step \in ProcessingStep \ {SLIDE_OPTIMIZATION} :
             /\ AttemptsOf(step) = 1
             /\ get_retry_count(step_results, step) = 0
             /\ is_step_completed(step_results, step)
       /\ AttemptsOf(SLIDE_OPTIMIZATION) = 0
       /\ Len(step_results) = 6

\* the parsed document has no section with content: what parse_document makes of
\* an empty document
NoContent ==
    processed_document.present
        /\ \A i \in DOMAIN processed_document.sections :
              processed_document.sections[i] = "empty_content"

C23_NothingChangesAfterTerminalStatus ==
    status \in {COMPLETED, FAILED} =>
        /\ at_terminal.present
        /\ step_results = at_terminal.step_results
        /\ errors = at_terminal.errors
        /\ current_step = at_terminal.current_step

\* C24: every run is finalized (mark_completed or mark_failed: status and end
\* time) exactly once, by _output_assembly_node when it ends completed and by
\* _error_handler_node when it ends failed.
C24_FinalizedOnceByAssemblyOrErrorHandler ==
    /\ Len(finalized) <= 1
    /\ Terminated =>
          /\ Len(finalized) = 1
          /\ end_time
          /\ status = COMPLETED => finalized[1] = "_output_assembly_node"
          /\ status = FAILED => finalized[1] = "_error_handler_node"

\* ------------------------------------------------------ claims on the ledger
\* the attempts the ledger sr holds for `step`
LedgerAttempts(sr, step) == {i \in DOMAIN sr : sr[i].step = step}

\* the attempts of `step` in sr that are running
RunningAttempts(sr, step) == {i \in LedgerAttempts(sr, step) : sr[i].status = RUNNING}

\* the last ledger call was complete_step or fail_step
EndingCall == l_call.name \in {"complete_step", "fail_step"}

\* C25: after any sequence of start_step, complete_step and fail_step calls the
\* ledger holds one attempt of a step for every start_step call made for it,
\* and get_retry_count(step) = max(0, attempts of step - 1) for every step,
\* whatever the statuses of the attempts and the attempts of other steps.
C25_RetryCountIsAttemptsMinusOne ==
    \A step \in ProcessingStep :
        LET attempts == Cardinality(LedgerAttempts(l_step_results, step))
        IN /\ step \in LedgerSteps => attempts = l_started[step]
           /\ step \notin LedgerSteps => attempts = 0
           /\ get_retry_count(l_step_results, step) = IF attempts >= 1 THEN attempts - 1 ELSE 0

C25_Witness ==
    /\ get_retry_count(l_step_results, SLIDE_GENERATION) = 1
    /\ \E i, j \in LedgerAttempts(l_step_results, SLIDE_GENERATION) :
          l_step_results[i].status = FAILED /\ l_step_results[j].status = COMPLETED
    /\ Cardinality(LedgerAttempts(l_step_results, QUALITY_EVALUATION)) = 1
    /\ get_retry_count(l_step_results, QUALITY_EVALUATION) = 0

\* C26: when complete_step (or fail_step) is called twice for one step with no
\* call between the two, the ledger after the second call is the ledger after
\* the first.
C26_SecondEndingCallChangesNothing ==
    (EndingCall /\ l_call_before = l_call) => l_step_results = l_before.step_results

\* C27: complete_step or fail_step called for a step that has no running
\* attempt returns without raising and leaves the attempt list, the error list
\* and the status as they were.
C27_NoRunningAttemptIsSilentNoOp ==
    (EndingCall /\ RunningAttempts(l_before.step_results, l_call.step) = {})
    => /\ ~l_call.raised
       /\ l_step_results = l_before.step_results
       /\ l_errors = l_before.errors
       /\ l_status = l_before.status

C27_Witness ==
    /\ EndingCall
    /\ RunningAttempts(l_before.step_results, l_call.step) = {}
    /\ LedgerAttempts(l_before.step_results, l_call.step) # {}
    /\ l_errors # <<>>
    /\ l_status = RUNNING

\* C28: whatever start_step, complete_step and fail_step calls were made, each
\* step has at most one attempt in running status.
C28_AtMostOneRunningAttemptPerStep ==
    \A step \in ProcessingStep : Cardinality(RunningAttempts(l_step_results, step)) <= 1

\* C29: the attempt list is append-only: no call removes or reorders an
\* attempt or changes an attempt's step; only start_step changes the length of
\* the list, by exactly one and at the end; a completed or failed attempt never
\* changes status again.
C29_AttemptListIsAppendOnly ==
    [][/\ Len(l_step_results') >= Len(l_step_results)
       /\ \A i \in DOMAIN l_step_results :
             /\ l_step_results'[i].step = l_step_results[i].step
             /\ l_step_results[i].status # RUNNING
                   => l_step_results'[i].status = l_step_results[i].status
       /\ Len(l_step_results') # Len(l_step_results) => l_call'.name = "start_step"
       /\ (l_calls' # l_calls /\ l_call'.name = "start_step")
             => /\ Len(l_step_results') = Len(l_step_results) + 1
                /\ l_step_results'[Len(l_step_results')] = StepResult(l_call'.step)]_vars

C29_Witness ==
    /\ l_call.name = "start_step"
    /\ Len(l_step_results) = 3
    /\ l_step_results[1].step = l_call.step
    /\ l_step_results[1].status = COMPLETED
    /\ l_step_results[2].status = FAILED
    /\ l_step_results[3] = StepResult(l_call.step)

\* ---------------------------------------------------- claims on one provider
\* C30: for all counters a provider can reach, is_healthy returns true exactly
\* when total_requests = 0 or 5 * successful_requests >= 4 * total_requests; a
\* provider that was never used is healthy.
C30_HealthyIffUnusedOrFourFifths ==
    h_health.read =>
        (h_health.value <=> (\/ h_provider.total_requests = 0
                             \/ 5 * h_provider.successful_requests >= 4 * h_provider.total_requests))

C30_Witness ==
    /\ h_health.read
    /\ h_health.value
    /\ h_provider.total_requests = 5
    /\ h_provider.successful_requests = 4
    /\ h_provider.failed_requests = 1

\* C38: the slide_optimization step neither loses nor reorders slides: whatever
\* the evaluate and optimize outcomes of the slides, the deck after the step has
\* as many slides as before it, for the same sections in the same order.
C38_OptimizationKeepsEverySlideInOrder ==
    [][(node = "slide_optimizer" /\ presentation_data.present)
       => /\ presentation_data'.present
          /\ Len(presentation_data'.slides) = Len(presentation_data.slides)
          /\ \A k \in DOMAIN presentation_data.slides :
                presentation_data'.slides[k].section = presentation_data.slides[k].section]_vars

\* C39: process_document never raises.  When a step raised, it returns an output
\* with status failed that carries exactly one error, not recoverable, and no
\* output files; the same when writing the output files raised.  Every run that
\* has ended has an output or is about to get it, and an output has output files
\* only if its status is completed and none of its errors is unrecoverable.
C39_FailureGivesOneUnrecoverableError ==
    /\ node = RAISED =>
          /\ output.present
          /\ output.status = FAILED
          /\ Len(output.errors) = 1
          /\ ~output.errors[1].is_recoverable
          /\ ~output.output_files
    /\ (node = END /\ ~output.present) => ENABLED process_document
    /\ output.present =>
          /\ node \in {END, RAISED}
          /\ output.status \in {COMPLETED, FAILED}
          /\ output.output_files => (output.status = COMPLETED /\ ~has_unrecoverable_errors(output.errors))
          /\ output.status = FAILED =>
                /\ Len(output.errors) = 1
                /\ ~output.errors[1].is_recoverable
                /\ ~output.output_files

\* quality evaluation raised after three steps had completed
C39_Witness ==
    /\ node = RAISED
    /\ output.present /\ output.status = FAILED
    /\ is_step_failed(step_results, QUALITY_EVALUATION)
    /\ is_step_completed(step_results, SLIDE_GENERATION)
    /\ Len(errors) = 1 /\ errors[1].is_recoverable

\* ------------------------------------------ more claims on the slide generator
\* C34: when optimize_slide_content, or the evaluation of the revision it
\* made, raises on some attempt, the call does not end (it neither raises nor
\* returns), best_slide and best_quality stay what they were before the
\* revision was tried, and the loop goes on to the next attempt's generate call.
C34_FailedOptimizationLeavesBest ==
    [][(\/ g_pc = "optimize" /\ g_pc' # "reevaluate"
        \/ g_pc = "reevaluate" /\ evals' = evals)
       => /\ g_pc' = "generate"
          /\ attempt' = attempt + 1
          /\ ~result'.present
          /\ best_slide' = best_slide
          /\ best_quality' = best_quality]_vars

\* the revision of attempt 0 was made but its evaluation raised, and the
\* revision of attempt 1 raised
C34_Witness ==
    /\ g_pc = "generate"
    /\ attempt = 2
    /\ calls = [generate |-> 2, evaluate |-> 3, optimize |-> 2]
    /\ Len(evals) = 2
    /\ optimized_slide = Slide(0, "optimized")
    /\ best_slide = Slide(0, "generated")
    /\ best_quality = evals[1].quality

\* C35: optimize_slide_content is awaited only on an attempt that is not the
\* last and whose generated slide was evaluated with passed = false, at most
\* once per attempt; one call makes at most max_retry_attempts generate calls,
\* max_retry_attempts - 1 optimize calls and 2 * max_retry_attempts - 1
\* evaluate calls, and it ends, returning or raising.
C35_OptimizeBoundedAndTerminates ==
    /\ [](/\ g_pc = "optimize" =>
                /\ attempt < max_retry_attempts - 1
                /\ quality_score.present /\ ~quality_score.passed
                /\ calls.optimize <= attempt
          /\ calls.optimize <= attempt + 1
          /\ calls.generate <= max_retry_attempts
          /\ calls.optimize <= max_retry_attempts - 1
          /\ calls.evaluate <= 2 * max_retry_attempts - 1)
    /\ <>(g_pc \in {"returned", "raised"})

C35_Witness ==
    /\ g_pc = "returned"
    /\ calls.generate = max_retry_attempts
    /\ calls.optimize = max_retry_attempts - 1
    /\ calls.evaluate = 2 * max_retry_attempts - 1

\* C36: every evaluate_slide_quality call made while a slide is generated
\* receives the run's configured quality_threshold.
C36_GenerationUsesConfiguredThreshold ==
    \A i \in DOMAIN evals : evals[i].threshold = configuration.quality_threshold

\* ------------------------------------------ more claims on the provider router
\* the candidates of the call whose provider was obtained and awaited
InvokedProviders == {r_invoked[k].provider : k \in {j \in DOMAIN r_invoked : r_invoked[j].obtained}}

\* provider n's method raised in the call
InvocationRaised(n) ==
    \E k \in DOMAIN r_invoked : r_invoked[k].provider = n /\ r_invoked[k].obtained /\ r_invoked[k].raised

\* C33: every provider invocation of an execute_with_fallback call is recorded
\* on that provider's counters: an invocation that returned raises
\* successful_requests by exactly one, an invocation that raised raises
\* failed_requests by exactly one, and the counters of the providers the call
\* did not invoke are what they were when the call began.
C33_OneCountPerInvocation ==
    (r_kind = "fallback" /\ r_pc \in {"returned", "raised"})
    => \A n \in FactoryProviders :
          LET before == r_start.stats[n]
              after == r_stats[n]
          IN IF n \notin InvokedProviders
             THEN after = before
             ELSE IF InvocationRaised(n)
                  THEN after.failed_requests = before.failed_requests + 1
                  ELSE after.successful_requests = before.successful_requests + 1

\* no coroutine is inside execute_with_retry
AllCallsFinished == \A t \in ProviderTasks : h_tasks[t].pc = "idle"

\* C31: the request, success and failure counters of a provider are
\* non-negative and no operation of the provider decreases one of them;
\* reading is_healthy changes no counter.
C31_CountersNeverDecrease ==
    [][/\ h_provider'.total_requests >= h_provider.total_requests
       /\ h_provider'.successful_requests >= h_provider.successful_requests
       /\ h_provider'.failed_requests >= h_provider.failed_requests
       /\ h_provider.total_requests >= 0
       /\ h_provider.successful_requests >= 0
       /\ h_provider.failed_requests >= 0
       /\ (h_health'.read /\ ~h_health.read) => h_provider' = h_provider]_vars

\* C32: for any interleaving of execute_with_retry calls of several coroutines
\* on one provider (no reset_statistics among them), no counter update is
\* lost: successes + failures <= total requests at every moment, total
\* requests = number of times func was awaited, the requests not yet counted
\* as success or failure are those of the coroutines awaiting func, and once
\* every call has finished successes + failures = total requests.
C32_NoCounterUpdateIsLost ==
    h_resets = 0 =>
        /\ h_provider.successful_requests + h_provider.failed_requests <= h_provider.total_requests
        /\ h_provider.total_requests = h_invocations
        /\ h_provider.total_requests - h_provider.successful_requests - h_provider.failed_requests
              = Cardinality({t \in ProviderTasks : h_tasks[t].pc = "func"})
        /\ AllCallsFinished =>
              h_provider.successful_requests + h_provider.failed_requests = h_provider.total_requests

C32_Witness ==
    /\ h_resets = 0
    /\ AllCallsFinished
    /\ h_ended["a"].how = "returned" /\ h_ended["a"].tries = 2
    /\ h_ended["b"].how = "raised"
    /\ h_calls = 2
    /\ h_provider.total_requests = provider_max_retries + 3

\* C40: execute_with_retry awaits func at most max_retries + 1 times in one
\* call; it returns at the first try that succeeds, with no further try;
\* it raises only after exactly max_retries + 1 failed tries; every try raises
\* total_requests by one when it starts and exactly one of successful_requests
\* and failed_requests by one when it ends.
C40_RetryIsBoundedAndCounted ==
    /\ [](\A t \in ProviderTasks :
            /\ h_tasks[t].attempt <= provider_max_retries
            /\ h_ended[t].how = "raised" => h_ended[t].tries = provider_max_retries + 1
            /\ h_ended[t].how = "returned" => h_ended[t].tries \in 1..(provider_max_retries + 1)
            /\ h_ended[t].how # "none" => h_tasks[t].pc = "idle")
    /\ [][\A t \in ProviderTasks :
            \* a try starts
            /\ (h_tasks'[t].pc = "func" /\ h_tasks[t].pc # "func")
                  => /\ h_provider'.total_requests = h_provider.total_requests + 1
                     /\ h_provider'.successful_requests = h_provider.successful_requests
                     /\ h_provider'.failed_requests = h_provider.failed_requests
                     /\ h_invocations' = h_invocations + 1
            \* a try ends
            /\ (h_tasks[t].pc = "func" /\ h_tasks'[t].pc # "func")
                  => /\ h_provider'.total_requests = h_provider.total_requests
                     /\ \/ /\ h_provider'.successful_requests = h_provider.successful_requests + 1
                           /\ h_provider'.failed_requests = h_provider.failed_requests
                           /\ h_ended'[t].how = "returned"
                           /\ h_tasks'[t].pc = "idle"
                        \/ /\ h_provider'.successful_requests = h_provider.successful_requests
                           /\ h_provider'.failed_requests = h_provider.failed_requests + 1
                           /\ h_ended'[t].how = "raised" <=> h_tasks[t].attempt = provider_max_retries
                           /\ h_ended'[t].how # "raised" => h_tasks'[t].pc = "sleep"]_vars

C40_Witness ==
    /\ h_ended["a"].how = "raised"
    /\ h_ended["a"].tries = provider_max_retries + 1
    /\ h_ended["b"].how = "returned"
    /\ h_ended["b"].tries = 3
    /\ h_resets = 0
    /\ h_provider = [total_requests |-> provider_max_retries + 4, successful_requests |-> 1,
                     failed_requests |-> provider_max_retries + 3]

\* ------------------------------------------------ claims on the quality issues
\* the positions of the assessments scoring below 0.7 on `field`
BelowSeventy(field) ==
    SelectSeq([i \in 1..Len(q_assessments) |-> i], LAMBDA i : q_assessments[i][field] < 70)

Emitted(text) == \E k \in DOMAIN q_suggestions : q_suggestions[k] = text

\* C37: for each of accuracy, coherence, clarity, completeness and overall, the
\* matching issue bucket holds exactly the assessed slides whose score on that
\* dimension is below 0.7; the suggestion of a component is emitted exactly when
\* strictly more than 30% of the assessed slides are below 0.7 on it.
C37_BucketsAndSuggestions ==
    /\ q_pc # "idle" =>
          /\ q_issues.low_accuracy = BelowSeventy("accuracy_score")
          /\ q_issues.poor_coherence = BelowSeventy("coherence_score")
          /\ q_issues.unclear_content = BelowSeventy("clarity_score")
          /\ q_issues.incomplete_information = BelowSeventy("completeness_score")
          /\ q_issues.overall_low_quality = BelowSeventy("overall_score")
    /\ (q_pc = "done" /\ q_assessments # <<>>) =>
          /\ Emitted("accuracy") <=> 10 * Len(BelowSeventy("accuracy_score")) > 3 * Len(q_assessments)
          /\ Emitted("coherence") <=> 10 * Len(BelowSeventy("coherence_score")) > 3 * Len(q_assessments)
          /\ Emitted("clarity") <=> 10 * Len(BelowSeventy("clarity_score")) > 3 * Len(q_assessments)
          /\ Emitted("completeness") <=> 10 * Len(BelowSeventy("completeness_score")) > 3 * Len(q_assessments)
====
